---------------------------- MODULE Spec2Model ----------------------------
(***************************************************************************)
(* Operational-transformation editor: the TextOperation algebra            *)
(* (src/src/ot.ts), the document server (src/src/server.ts) and the        *)
(* client synchronisation state machine (public/client.ts).                *)
(*                                                                         *)
(* Strings are sequences of one-character strings.  An operation           *)
(* component is a JavaScript value of type number or string, kept with its *)
(* typeof tag so that isRetain / isInsert / isDelete test what the source  *)
(* tests; `undefined` is what an out-of-range array read or shift() on an  *)
(* empty array gives.  A thrown exception is a result with ok = FALSE (for *)
(* operations, the value Thrown).                                          *)
(***************************************************************************)
EXTENDS Integers, Sequences, FiniteSets, TLC

\* ------------------------------------------------------------------------
\* Bounds of the model
\* ------------------------------------------------------------------------
\* longest base document of an operation the algebra harness builds
MaxBaseLen == 2
\* longest target document of an operation the algebra harness builds
MaxTargetLen == 3

\* ------------------------------------------------------------------------
\* JavaScript values
\* ------------------------------------------------------------------------
Num(n) == [type |-> "number", num |-> n, str |-> <<>>]
Str(s) == [type |-> "string", num |-> 0, str |-> s]
undefined == [type |-> "undefined", num |-> 0, str |-> <<>>]
\* a JSON value that is neither a number nor a string (null, an object)
JsonObject == [type |-> "object", num |-> 0, str |-> <<>>]

Min(x, y) == IF x < y THEN x ELSE y
Max(x, y) == IF x > y THEN x ELSE y

\* arr[i] of a JavaScript array, 0-based: undefined outside the array
At(arr, i) == IF i >= 0 /\ i < Len(arr) THEN arr[i + 1] ELSE undefined
\* arr.shift(): the head (undefined when empty) and the rest
ShiftHead(arr) == IF Len(arr) = 0 THEN undefined ELSE Head(arr)
ShiftRest(arr) == IF Len(arr) = 0 THEN arr ELSE Tail(arr)

\* String.prototype.substring(start, end)
substring(doc, start, end) ==
    LET s == Min(Max(start, 0), Len(doc))
        e == Min(Max(end, 0), Len(doc))
    IN  SubSeq(doc, Min(s, e) + 1, Max(s, e))

\* ------------------------------------------------------------------------
\* ot.ts: component predicates
\* ------------------------------------------------------------------------
isRetain(op) == op.type = "number" /\ op.num > 0
isInsert(op) == op.type = "string"
isDelete(op) == op.type = "number" /\ op.num < 0

\* ------------------------------------------------------------------------
\* ot.ts: TextOperation and its builder
\* ------------------------------------------------------------------------
NewTextOperation == [ops |-> <<>>, baseLength |-> 0, targetLength |-> 0]

\* the outcome of a builder / compose / invert / fromJSON call that threw
Thrown == [ops |-> <<>>, baseLength |-> -1, targetLength |-> -1]
IsThrown(op) == op = Thrown

addOp(self, newOp) ==
    LET ops == self.ops
        len == Len(ops)
        lastOp == At(ops, len - 1)
    IN  IF (isRetain(newOp) \/ isDelete(newOp)) /\ newOp.num = 0 THEN self
        ELSE IF isInsert(newOp) /\ newOp.str = <<>> THEN self
        ELSE IF isRetain(newOp) /\ isRetain(lastOp)
            THEN [self EXCEPT !.ops[len] = Num(lastOp.num + newOp.num)]
        ELSE IF isInsert(newOp) /\ isInsert(lastOp)
            THEN [self EXCEPT !.ops[len] = Str(lastOp.str \o newOp.str)]
        ELSE IF isDelete(newOp) /\ isDelete(lastOp)
            THEN [self EXCEPT !.ops[len] = Num(lastOp.num + newOp.num)]
        ELSE IF isDelete(newOp) /\ isInsert(lastOp)
            THEN IF isInsert(At(ops, len - 2))
                 THEN [self EXCEPT !.ops[len - 1] = Str(ops[len - 1].str \o lastOp.str),
                                   !.ops[len] = newOp]
                 ELSE \* push(ops[len-1]); ops[len-2] = newOp  (len is the new length)
                      [self EXCEPT !.ops = SubSeq(ops, 1, len - 1) \o <<newOp, lastOp>>]
        ELSE [self EXCEPT !.ops = Append(ops, newOp)]

retain(self, n) ==
    IF IsThrown(self) THEN Thrown
    ELSE IF n = 0 THEN self
    ELSE IF n < 0 THEN Thrown
    ELSE addOp([self EXCEPT !.baseLength = @ + n, !.targetLength = @ + n], Num(n))

insert(self, str) ==
    IF IsThrown(self) THEN Thrown
    ELSE IF str = <<>> THEN self
    ELSE addOp([self EXCEPT !.targetLength = @ + Len(str)], Str(str))

\* delete that forgets to advance baseLength
deleteKeepsBase(self, n) ==
    IF IsThrown(self) THEN Thrown
    ELSE IF n = 0 THEN self
    ELSE IF n < 0 THEN Thrown
    ELSE addOp(self, Num(-n))

delete(self, n) ==
    IF IsThrown(self) THEN Thrown
    ELSE IF n = 0 THEN self
    ELSE IF n < 0 THEN Thrown
    ELSE addOp([self EXCEPT !.baseLength = @ + n], Num(-n))

isNoop(self) ==
    \/ Len(self.ops) = 0
    \/ (Len(self.ops) = 1 /\ isRetain(self.ops[1]))

\* ------------------------------------------------------------------------
\* ot.ts: apply
\* ------------------------------------------------------------------------
ApplyFail == [ok |-> FALSE, doc |-> <<>>]
ApplyOk(d) == [ok |-> TRUE, doc |-> d]

RECURSIVE applyLoop(_, _, _, _, _)
applyLoop(ops, k, doc, newDoc, docIndex) ==
    IF k > Len(ops)
    THEN IF docIndex # Len(doc) THEN ApplyFail ELSE ApplyOk(newDoc)
    ELSE LET op == ops[k]
         IN  IF isRetain(op)
             THEN IF docIndex + op.num > Len(doc)
                  THEN ApplyFail
                  ELSE applyLoop(ops, k + 1, doc,
                                 newDoc \o substring(doc, docIndex, docIndex + op.num),
                                 docIndex + op.num)
             ELSE IF isInsert(op)
             THEN applyLoop(ops, k + 1, doc, newDoc \o op.str, docIndex)
             ELSE applyLoop(ops, k + 1, doc, newDoc, docIndex - op.num)

apply(self, doc) ==
    IF Len(doc) # self.baseLength THEN ApplyFail
    ELSE applyLoop(self.ops, 1, doc, <<>>, 0)

\* ------------------------------------------------------------------------
\* ot.ts: invert
\* ------------------------------------------------------------------------
RECURSIVE invertLoop(_, _, _, _, _)
invertLoop(ops, k, doc, inverse, docIndex) ==
    IF k > Len(ops) THEN inverse
    ELSE LET op == ops[k]
         IN  IF isRetain(op)
             THEN invertLoop(ops, k + 1, doc, retain(inverse, op.num), docIndex + op.num)
             ELSE IF isInsert(op)
             THEN invertLoop(ops, k + 1, doc, delete(inverse, Len(op.str)), docIndex)
             ELSE invertLoop(ops, k + 1, doc,
                             insert(inverse, substring(doc, docIndex, docIndex - op.num)),
                             docIndex - op.num)

\* invert whose document cursor starts one character late
invertCursorOff(self, doc) ==
    IF Len(doc) # self.baseLength THEN Thrown
    ELSE invertLoop(self.ops, 1, doc, NewTextOperation, 1)

\* a faulty variant: invert without its length check
invertUnchecked(self, doc) == invertLoop(self.ops, 1, doc, NewTextOperation, 0)

invert(self, doc) ==
    IF Len(doc) # self.baseLength THEN Thrown
    ELSE invertLoop(self.ops, 1, doc, NewTextOperation, 0)

\* ------------------------------------------------------------------------
\* ot.ts: compose
\* ------------------------------------------------------------------------
RECURSIVE composeLoop(_, _, _, _, _)
composeLoop(op1, ops1, op2, ops2, composed) ==
    IF op1 = undefined /\ op2 = undefined THEN composed
    ELSE IF isInsert(op1)
        THEN composeLoop(ShiftHead(ops1), ShiftRest(ops1), op2, ops2,
                         insert(composed, op1.str))
    ELSE IF isInsert(op2)
        THEN composeLoop(op1, ops1, ShiftHead(ops2), ShiftRest(ops2),
                         insert(composed, op2.str))
    ELSE IF op1 = undefined THEN Thrown
    ELSE IF op2 = undefined THEN Thrown
    ELSE IF isRetain(op1) /\ isRetain(op2)
        THEN LET c == retain(composed, Min(op1.num, op2.num))
             IN  IF op1.num > op2.num
                 THEN composeLoop(Num(op1.num - op2.num), ops1,
                                  ShiftHead(ops2), ShiftRest(ops2), c)
                 ELSE IF op1.num < op2.num
                 THEN composeLoop(ShiftHead(ops1), ShiftRest(ops1),
                                  Num(op2.num - op1.num), ops2, c)
                 ELSE composeLoop(ShiftHead(ops1), ShiftRest(ops1),
                                  ShiftHead(ops2), ShiftRest(ops2), c)
    ELSE IF isDelete(op1) /\ isDelete(op2)
        THEN LET minLen == Min(-op1.num, -op2.num)
                 c == delete(composed, minLen)
             IN  IF -op1.num > -op2.num
                 THEN composeLoop(Num(op1.num + minLen), ops1,
                                  ShiftHead(ops2), ShiftRest(ops2), c)
                 ELSE IF -op1.num < -op2.num
                 THEN composeLoop(ShiftHead(ops1), ShiftRest(ops1),
                                  Num(op2.num + minLen), ops2, c)
                 ELSE composeLoop(ShiftHead(ops1), ShiftRest(ops1),
                                  ShiftHead(ops2), ShiftRest(ops2), c)
    ELSE IF isDelete(op1) /\ isRetain(op2)
        THEN LET c == delete(composed, Min(-op1.num, op2.num))
             IN  IF -op1.num > op2.num
                 THEN composeLoop(Num(op1.num + op2.num), ops1,
                                  ShiftHead(ops2), ShiftRest(ops2), c)
                 ELSE IF -op1.num < op2.num
                 THEN composeLoop(ShiftHead(ops1), ShiftRest(ops1),
                                  Num(op2.num - (-op1.num)), ops2, c)
                 ELSE composeLoop(ShiftHead(ops1), ShiftRest(ops1),
                                  ShiftHead(ops2), ShiftRest(ops2), c)
    ELSE IF isRetain(op1) /\ isDelete(op2)
        THEN LET c == delete(composed, Min(op1.num, -op2.num))
             IN  IF op1.num > -op2.num
                 THEN composeLoop(Num(op1.num - (-op2.num)), ops1,
                                  ShiftHead(ops2), ShiftRest(ops2), c)
                 ELSE IF op1.num < -op2.num
                 THEN composeLoop(ShiftHead(ops1), ShiftRest(ops1),
                                  Num(op2.num + op1.num), ops2, c)
                 ELSE composeLoop(ShiftHead(ops1), ShiftRest(ops1),
                                  ShiftHead(ops2), ShiftRest(ops2), c)
    ELSE Thrown

compose(self, other) ==
    IF self.targetLength # other.baseLength THEN Thrown
    ELSE composeLoop(ShiftHead(self.ops), ShiftRest(self.ops),
                     ShiftHead(other.ops), ShiftRest(other.ops), NewTextOperation)

\* ------------------------------------------------------------------------
\* ot.ts: transform
\* ------------------------------------------------------------------------
TransformFail == [ok |-> FALSE, a |-> Thrown, b |-> Thrown]
TransformOk(p1, p2) == [ok |-> TRUE, a |-> p1, b |-> p2]

RECURSIVE transformLoop(_, _, _, _, _, _)
transformLoop(currentOp1, ops1, currentOp2, ops2, op1Prime, op2Prime) ==
    IF currentOp1 = undefined /\ currentOp2 = undefined
        THEN TransformOk(op1Prime, op2Prime)
    ELSE IF isInsert(currentOp1)
        THEN transformLoop(ShiftHead(ops1), ShiftRest(ops1), currentOp2, ops2,
                           insert(op1Prime, currentOp1.str),
                           retain(op2Prime, Len(currentOp1.str)))
    ELSE IF isInsert(currentOp2)
        THEN transformLoop(currentOp1, ops1, ShiftHead(ops2), ShiftRest(ops2),
                           retain(op1Prime, Len(currentOp2.str)),
                           insert(op2Prime, currentOp2.str))
    ELSE IF currentOp1 = undefined \/ currentOp2 = undefined
        THEN \* one side is exhausted and the other is not
             TransformFail
    ELSE IF isRetain(currentOp1) /\ isRetain(currentOp2)
        THEN LET minLen == Min(currentOp1.num, currentOp2.num)
                 p1 == retain(op1Prime, minLen)
                 p2 == retain(op2Prime, minLen)
             IN  IF currentOp1.num > currentOp2.num
                 THEN transformLoop(Num(currentOp1.num - currentOp2.num), ops1,
                                    ShiftHead(ops2), ShiftRest(ops2), p1, p2)
                 ELSE IF currentOp1.num < currentOp2.num
                 THEN transformLoop(ShiftHead(ops1), ShiftRest(ops1),
                                    Num(currentOp2.num - currentOp1.num), ops2, p1, p2)
                 ELSE transformLoop(ShiftHead(ops1), ShiftRest(ops1),
                                    ShiftHead(ops2), ShiftRest(ops2), p1, p2)
    ELSE IF isDelete(currentOp1) /\ isDelete(currentOp2)
        THEN LET len1 == -currentOp1.num
                 len2 == -currentOp2.num
             IN  IF len1 > len2
                 THEN transformLoop(Num(currentOp1.num + len2), ops1,
                                    ShiftHead(ops2), ShiftRest(ops2), op1Prime, op2Prime)
                 ELSE IF len1 < len2
                 THEN transformLoop(ShiftHead(ops1), ShiftRest(ops1),
                                    Num(currentOp2.num + len1), ops2, op1Prime, op2Prime)
                 ELSE transformLoop(ShiftHead(ops1), ShiftRest(ops1),
                                    ShiftHead(ops2), ShiftRest(ops2), op1Prime, op2Prime)
    ELSE IF isDelete(currentOp1) /\ isRetain(currentOp2)
        THEN LET len1 == -currentOp1.num
                 len2 == currentOp2.num
                 p1 == delete(op1Prime, Min(len1, len2))
             IN  IF len1 > len2
                 THEN transformLoop(Num(currentOp1.num + len2), ops1,
                                    ShiftHead(ops2), ShiftRest(ops2), p1, op2Prime)
                 ELSE IF len1 < len2
                 THEN transformLoop(ShiftHead(ops1), ShiftRest(ops1),
                                    Num(currentOp2.num - len1), ops2, p1, op2Prime)
                 ELSE transformLoop(ShiftHead(ops1), ShiftRest(ops1),
                                    ShiftHead(ops2), ShiftRest(ops2), p1, op2Prime)
    ELSE IF isRetain(currentOp1) /\ isDelete(currentOp2)
        THEN LET len1 == currentOp1.num
                 len2 == -currentOp2.num
                 p2 == delete(op2Prime, Min(len1, len2))
             IN  IF len1 > len2
                 THEN transformLoop(Num(currentOp1.num - len2), ops1,
                                    ShiftHead(ops2), ShiftRest(ops2), op1Prime, p2)
                 ELSE IF len1 < len2
                 THEN transformLoop(ShiftHead(ops1), ShiftRest(ops1),
                                    Num(currentOp2.num + len1), ops2, op1Prime, p2)
                 ELSE transformLoop(ShiftHead(ops1), ShiftRest(ops1),
                                    ShiftHead(ops2), ShiftRest(ops2), op1Prime, p2)
    ELSE TransformFail

\* transform that returns the pair in the wrong order
transformSwapped(op1, op2) ==
    IF op1.baseLength # op2.baseLength THEN TransformFail
    ELSE LET t == transformLoop(ShiftHead(op1.ops), ShiftRest(op1.ops),
                                ShiftHead(op2.ops), ShiftRest(op2.ops),
                                NewTextOperation, NewTextOperation)
         IN  [t EXCEPT !.a = t.b, !.b = t.a]

\* a transform that converges but lets op2's insert win a tie: the loop is run
\* with the operations exchanged and the pair is exchanged back
transformSecondWins(op1, op2) ==
    IF op1.baseLength # op2.baseLength THEN TransformFail
    ELSE LET t == transformLoop(ShiftHead(op2.ops), ShiftRest(op2.ops),
                                ShiftHead(op1.ops), ShiftRest(op1.ops),
                                NewTextOperation, NewTextOperation)
         IN  [t EXCEPT !.a = t.b, !.b = t.a]

\* a faulty variant: the operations are returned as they came
transformUntransformed(op1, op2) ==
    IF op1.baseLength # op2.baseLength THEN TransformFail
    ELSE TransformOk(op1, op2)

transform(op1, op2) ==
    IF op1.baseLength # op2.baseLength THEN TransformFail
    ELSE transformLoop(ShiftHead(op1.ops), ShiftRest(op1.ops),
                       ShiftHead(op2.ops), ShiftRest(op2.ops),
                       NewTextOperation, NewTextOperation)

\* ------------------------------------------------------------------------
\* ot.ts: wire form
\* ------------------------------------------------------------------------
RECURSIVE fromJSONLoop(_, _, _)
fromJSONLoop(ops, k, operation) ==
    IF k > Len(ops) THEN operation
    ELSE LET op == ops[k]
         IN  IF isRetain(op) THEN fromJSONLoop(ops, k + 1, retain(operation, op.num))
             ELSE IF isInsert(op) THEN fromJSONLoop(ops, k + 1, insert(operation, op.str))
             ELSE IF isDelete(op) THEN fromJSONLoop(ops, k + 1, delete(operation, -op.num))
             ELSE Thrown

fromJSON(ops) == fromJSONLoop(ops, 1, NewTextOperation)

toJSON(self) == self.ops

\* ------------------------------------------------------------------------
\* The system: one server, the sessions of Clients, and a FIFO channel in
\* each direction per session (Socket.IO over one websocket).
\* ------------------------------------------------------------------------
Clients == {"X", "Y"}

VARIABLES
    \* server.ts
    documentState, currentRevision, operationHistory, connectedUsers,
    \* messages in flight: client -> server and server -> client, per session
    c2s, s2c,
    \* client.ts: the component of each client; the local edits made so far
    client, edits,
    \* the algebra harness (see below)
    opA, opB, testDoc, result

serverVars == <<documentState, currentRevision, operationHistory, connectedUsers>>
netVars == <<c2s, s2c>>
clientVars == <<client, edits>>
sysVars == <<serverVars, netVars, clientVars>>
algVars == <<opA, opB, testDoc, result>>
vars == <<sysVars, algVars>>

\* --- messages (types.ts); every message carries every field -------------
BlankMsg == [type |-> "", revision |-> 0, op |-> <<>>, startRevision |-> 0,
             ops |-> <<>>, currentRevision |-> 0, doc |-> <<>>]
ClientPushMsg(revision, op) ==
    [BlankMsg EXCEPT !.type = "push", !.revision = revision, !.op = op]
ClientPullMsg(revision) ==
    [BlankMsg EXCEPT !.type = "pull", !.revision = revision]
ServerInitialStateMsg(doc, revision) ==
    [BlankMsg EXCEPT !.type = "initial_state", !.doc = doc, !.revision = revision]
ServerAckMsg(revision) ==
    [BlankMsg EXCEPT !.type = "ack", !.revision = revision]
ServerUpdateMsg(revision, op) ==
    [BlankMsg EXCEPT !.type = "update", !.revision = revision, !.op = op]
ServerHistoryMsg(startRevision, ops, current, doc) ==
    [BlankMsg EXCEPT !.type = "history", !.startRevision = startRevision,
                     !.ops = ops, !.currentRevision = current, !.doc = doc]
ServerErrorMsg == [BlankMsg EXCEPT !.type = "error"]
\* Socket.IO's own packets: a socket opened (client -> server), the server's
\* answer that raises "connect" at the client, and a socket closed
ConnectMsg == [BlankMsg EXCEPT !.type = "connect"]
DisconnectMsg == [BlankMsg EXCEPT !.type = "disconnect"]

\* the client has closed the socket the server still holds for session c:
\* what the server emits on it is lost
Closing(c) == \E i \in 1 .. Len(c2s[c]) : c2s[c][i].type = "disconnect"

\* socket.emit(msg) on session c; socket.broadcast.emit(msg) from session c.
\* The presence events (your_identity, current_users, user_joined,
\* user_left) have no listener in client.ts and carry no document state;
\* they are not put on the channels.
Emit(chan, c, msg) == IF Closing(c) THEN chan ELSE [chan EXCEPT ![c] = Append(@, msg)]
\* socket.broadcast.emit that leaves the sender in
BroadcastEmitToAll(chan, c, msg) ==
    [d \in Clients |->
        IF d \in connectedUsers /\ ~Closing(d)
        THEN Append(chan[d], msg) ELSE chan[d]]

\* socket.broadcast.emit on a transport that delivers the newest message first
BroadcastEmitNewestFirst(chan, c, msg) ==
    [d \in Clients |->
        IF d # c /\ d \in connectedUsers /\ ~Closing(d)
        THEN <<msg>> \o chan[d] ELSE chan[d]]

BroadcastEmit(chan, c, msg) ==
    [d \in Clients |->
        IF d # c /\ d \in connectedUsers /\ ~Closing(d)
        THEN Append(chan[d], msg) ELSE chan[d]]

\* slice that starts one entry late
sliceAfter(arr, start) == SubSeq(arr, Min(Max(start, 0), Len(arr)) + 2, Len(arr))

\* Array.prototype.slice(start) and map(op => op.toJSON())
slice(arr, start) == SubSeq(arr, Min(Max(start, 0), Len(arr)) + 1, Len(arr))
mapToJSON(arr) == [i \in 1 .. Len(arr) |-> toJSON(arr[i])]

\* --- server.ts: "connection" ---------------------------------------------
serverOnConnection(c) ==
    /\ connectedUsers' = connectedUsers \cup {c}
    /\ s2c' = Emit(Emit(s2c, c, ConnectMsg), c,
                   ServerInitialStateMsg(documentState, currentRevision))
    /\ UNCHANGED <<documentState, currentRevision, operationHistory>>

\* --- server.ts: "push" ---------------------------------------------------
\* the revision check at the head of the handler
\* a faulty variant: the upper bound is not checked
revisionInvalidNoUpper(clientRevision, revision) == clientRevision < 0

revisionInvalid(clientRevision, revision) ==
    clientRevision < 0 \/ clientRevision > revision

PushFail == [ok |-> FALSE, op |-> Thrown]
PushOk(op) == [ok |-> TRUE, op |-> op]

\* a faulty variant: the historical operation is the first argument of
\* transform, so its insert wins a tie
pushTransformStepHistoryFirst(transformedClientOp, historicalOp) ==
    IF transformedClientOp.baseLength # historicalOp.baseLength THEN PushFail
    ELSE LET t == transform(historicalOp, transformedClientOp)
         IN  IF t.ok THEN PushOk(t.b) ELSE PushFail

\* one iteration of the loop over concurrentOps
pushTransformStep(transformedClientOp, historicalOp) ==
    IF transformedClientOp.baseLength # historicalOp.baseLength THEN PushFail
    ELSE LET t == transform(transformedClientOp, historicalOp)
         IN  IF t.ok THEN PushOk(t.a) ELSE PushFail

RECURSIVE pushTransformLoop(_, _, _)
pushTransformLoop(transformedClientOp, concurrentOps, k) ==
    IF k > Len(concurrentOps) THEN PushOk(transformedClientOp)
    ELSE LET step == pushTransformStep(transformedClientOp, concurrentOps[k])
         IN  IF step.ok THEN pushTransformLoop(step.op, concurrentOps, k + 1)
             ELSE PushFail

\* what the try block computes before it changes anything: the transformed
\* operation and the new document, or a failure (an Error is emitted)
pushOutcome(msg) ==
    LET clientOp == fromJSON(msg.op)
        clientRevision == msg.revision
    IN  IF IsThrown(clientOp) THEN [ok |-> FALSE, op |-> Thrown, doc |-> <<>>]
        ELSE IF revisionInvalid(clientRevision, currentRevision)
            THEN [ok |-> FALSE, op |-> Thrown, doc |-> <<>>]
        ELSE LET tr == pushTransformLoop(clientOp,
                                         slice(operationHistory, clientRevision), 1)
                 applied == apply(tr.op, documentState)
             IN  IF ~tr.ok THEN [ok |-> FALSE, op |-> Thrown, doc |-> <<>>]
                 ELSE IF ~applied.ok THEN [ok |-> FALSE, op |-> Thrown, doc |-> <<>>]
                 ELSE [ok |-> TRUE, op |-> tr.op, doc |-> applied.doc]

\* a faulty variant: the accepted operation is not appended to the history
pushCommitNoHistory(out) ==
    /\ documentState' = out.doc
    /\ currentRevision' = currentRevision + 1
    /\ operationHistory' = operationHistory

\* a faulty variant: the content is not replaced
pushCommitKeepsContent(out) ==
    /\ documentState' = documentState
    /\ currentRevision' = currentRevision + 1
    /\ operationHistory' = Append(operationHistory, out.op)

\* documentState = ...; currentRevision++; operationHistory.push(...)
pushCommit(out) ==
    /\ documentState' = out.doc
    /\ currentRevision' = currentRevision + 1
    /\ operationHistory' = Append(operationHistory, out.op)

serverOnPush(c, msg) ==
    LET out == pushOutcome(msg)
    IN  IF out.ok
        THEN /\ pushCommit(out)
             /\ s2c' = BroadcastEmit(Emit(s2c, c, ServerAckMsg(currentRevision + 1)), c,
                                     ServerUpdateMsg(currentRevision + 1, toJSON(out.op)))
             /\ UNCHANGED connectedUsers
        ELSE /\ s2c' = Emit(s2c, c, ServerErrorMsg)
             /\ UNCHANGED serverVars

\* the pull handler without the upper bound on the client's revision
serverOnPullNoUpper(c, msg) ==
    LET clientRevision == msg.revision
    IN  /\ IF clientRevision < 0
           THEN s2c' = Emit(s2c, c, ServerHistoryMsg(1, mapToJSON(operationHistory),
                                                     currentRevision, documentState))
           ELSE s2c' = Emit(s2c, c,
                            ServerHistoryMsg(clientRevision + 1,
                                             mapToJSON(slice(operationHistory, clientRevision)),
                                             currentRevision, documentState))
        /\ UNCHANGED serverVars

\* --- server.ts: "pull" ---------------------------------------------------
serverOnPull(c, msg) ==
    LET clientRevision == msg.revision
    IN  /\ IF clientRevision < 0 \/ clientRevision > currentRevision
           THEN s2c' = Emit(s2c, c, ServerHistoryMsg(1, mapToJSON(operationHistory),
                                                     currentRevision, documentState))
           ELSE s2c' = Emit(s2c, c,
                            ServerHistoryMsg(clientRevision + 1,
                                             mapToJSON(slice(operationHistory, clientRevision)),
                                             currentRevision, documentState))
        /\ UNCHANGED serverVars

\* --- server.ts: "disconnect" ---------------------------------------------
serverOnDisconnect(c) ==
    /\ connectedUsers' = connectedUsers \ {c}
    /\ UNCHANGED <<documentState, currentRevision, operationHistory, s2c>>

\* ------------------------------------------------------------------------
\* client.ts: the state of one client (the Alpine component of editorApp)
\* and its methods.  A method takes and returns a context cx:
\*   st        the component's fields (editorDoc is the Ace editor's content,
\*             what editor.getValue() returns)
\*   out       the messages it has emitted on the socket, in order
\*   reconnect whether it called socket.disconnect().connect()
\* localRevision is only ever written and is left out; readOnly is the
\* editor's read-only flag; ignoreNextEditorChange is
\* set and cleared around the editor events that setValue itself raises, so
\* it is false whenever a handler starts.
\* ------------------------------------------------------------------------
null == [ops |-> <<>>, baseLength |-> -2, targetLength |-> -2]

NewClient ==
    [isConnected |-> FALSE, mode |-> "Automatic",
     syncedDoc |-> <<>>, virtualDoc |-> <<>>, editorDoc |-> <<>>, readOnly |-> TRUE,
     serverRevision |-> -1, state |-> "initializing",
     outstandingOp |-> null, bufferedOp |-> null, updateQueue |-> <<>>,
     autoPushTimer |-> FALSE]

Cx(st) == [st |-> st, out |-> <<>>, reconnect |-> FALSE]

canPush(st) ==
    /\ st.isConnected
    /\ st.mode = "Manual"
    /\ st.state # "awaitingPush"
    /\ st.state # "awaitingPull"
    /\ st.bufferedOp # null

canPull(st) ==
    /\ st.isConnected
    /\ st.state # "awaitingPush"
    /\ st.state # "awaitingPull"

setEditorValue(st, value) == [st EXCEPT !.editorDoc = value, !.virtualDoc = value]

startAutoPushTimer(st) ==
    IF st.autoPushTimer THEN st
    ELSE IF st.mode = "Automatic" /\ st.isConnected /\ st.state # "initializing"
         THEN [st EXCEPT !.autoPushTimer = TRUE]
         ELSE st

stopAutoPushTimer(st) == [st EXCEPT !.autoPushTimer = FALSE]

\* pullChanges asking for the history after the next revision
pullChangesFromNext(cx) ==
    IF ~canPull(cx.st) THEN cx
    ELSE LET stopped == IF cx.st.mode = "Automatic" THEN stopAutoPushTimer(cx.st)
                        ELSE cx.st
         IN  [cx EXCEPT !.st = [stopped EXCEPT !.state = "awaitingPull"],
                        !.out = Append(@, ClientPullMsg(cx.st.serverRevision + 1))]

pullChanges(cx) ==
    IF ~canPull(cx.st) THEN cx
    ELSE LET stopped == IF cx.st.mode = "Automatic" THEN stopAutoPushTimer(cx.st)
                        ELSE cx.st
         IN  [cx EXCEPT !.st = [stopped EXCEPT !.state = "awaitingPull"],
                        !.out = Append(@, ClientPullMsg(cx.st.serverRevision))]

\* --- convertAceDeltaToOp / handleLocalDelta -----------------------------
\* An Ace delta: action "insert" or "remove", the linear position index that
\* positionToIndex gives for delta.start (documents here hold no newline, so
\* start.row = 0 and the index is start.column), and the text
\* delta.lines.join("\n") inserted or removed.
convertAceDeltaToOp(st, delta) ==
    LET index == delta.index
        op0 == IF index # 0 THEN retain(NewTextOperation, index) ELSE NewTextOperation
    IN  IF delta.action = "insert"
        THEN retain(insert(op0, delta.text), Len(st.virtualDoc) - index)
        ELSE retain(delete(op0, Len(delta.text)),
                    Len(st.virtualDoc) - (index + Len(delta.text)))

\* the state re-evaluation at the end of handleLocalDelta
localDeltaState(st) ==
    IF st.state # "initializing"
    THEN IF st.editorDoc # st.syncedDoc /\ st.state # "awaitingPush"
         THEN [st EXCEPT !.state = "dirty"]
         ELSE IF st.editorDoc = st.syncedDoc /\ st.state = "dirty"
         THEN [st EXCEPT !.state = "synchronized"]
         ELSE st
    ELSE st

\* st.editorDoc already holds the edited text (Ace raises "change" after the
\* edit).  An exception thrown by convertAceDeltaToOp or compose is not
\* caught: the handler ends there and the fields keep their values.
handleLocalDelta(st, delta) ==
    LET op == convertAceDeltaToOp(st, delta)
        composed == IF st.bufferedOp # null THEN compose(st.bufferedOp, op) ELSE op
        applied == apply(op, st.virtualDoc)
    IN  IF IsThrown(op) THEN st
        ELSE IF IsThrown(composed) THEN st
        ELSE localDeltaState(
                IF applied.ok
                THEN [st EXCEPT !.bufferedOp = composed, !.virtualDoc = applied.doc]
                ELSE [st EXCEPT !.bufferedOp = null, !.virtualDoc = st.editorDoc])

\* --- processServerUpdate ------------------------------------------------
\* step 5 of processServerUpdate, also the end of the "ack" handler
reevaluateState(st) ==
    IF st.bufferedOp # null /\ ~isNoop(st.bufferedOp)
    THEN [st EXCEPT !.state = "dirty"]
    ELSE [st EXCEPT !.bufferedOp = null,
                    !.state = IF st.editorDoc = st.syncedDoc THEN "synchronized"
                              ELSE "dirty"]

\* steps 2-5: the operation applied to syncedDoc and to the editor
integrateServerOp(cx, msg, serverOp) ==
    LET synced == apply(serverOp, cx.st.syncedDoc)
        st1 == [cx.st EXCEPT !.syncedDoc = synced.doc]
        edited == apply(serverOp, st1.editorDoc)
        st2 == setEditorValue(st1, edited.doc)
        st3 == [st2 EXCEPT !.serverRevision = msg.revision]
    IN  IF ~synced.ok THEN pullChanges(cx)
        ELSE IF ~edited.ok THEN pullChanges([cx EXCEPT !.st = st1])
        ELSE [cx EXCEPT !.st = reevaluateState(st3)]

processServerUpdate(cx, msg) ==
    LET st == cx.st
        serverOp == fromJSON(msg.op)
        t == transform(serverOp, st.bufferedOp)
    IN  IF IsThrown(serverOp) THEN cx
        ELSE IF msg.revision # st.serverRevision + 1 THEN pullChanges(cx)
        ELSE IF st.bufferedOp # null
        THEN IF st.bufferedOp.baseLength # Len(st.syncedDoc) THEN pullChanges(cx)
             ELSE IF serverOp.baseLength # Len(st.syncedDoc) THEN pullChanges(cx)
             ELSE IF ~t.ok THEN pullChanges(cx)
             ELSE integrateServerOp([cx EXCEPT !.st.bufferedOp = t.b], msg, t.a)
        ELSE integrateServerOp(cx, msg, serverOp)

\* applyQueuedUpdates that stops at a pull without emptying the queue
RECURSIVE applyQueuedUpdatesKeepsRest(_)
applyQueuedUpdatesKeepsRest(cx) ==
    IF Len(cx.st.updateQueue) = 0 THEN cx
    ELSE LET msg == Head(cx.st.updateQueue)
             shifted == [cx EXCEPT !.st.updateQueue = Tail(@)]
             done == processServerUpdate(shifted, msg)
         IN  IF done.st.state = "awaitingPull" \/ done.st.state = "initializing"
             THEN done
             ELSE applyQueuedUpdatesKeepsRest(done)

RECURSIVE applyQueuedUpdates(_)
applyQueuedUpdates(cx) ==
    IF Len(cx.st.updateQueue) = 0 THEN cx
    ELSE LET msg == Head(cx.st.updateQueue)
             shifted == [cx EXCEPT !.st.updateQueue = Tail(@)]
             done == processServerUpdate(shifted, msg)
         IN  IF done.st.state = "awaitingPull" \/ done.st.state = "initializing"
             THEN [done EXCEPT !.st.updateQueue = <<>>]
             ELSE applyQueuedUpdates(done)

\* --- socket.on("disconnect") ---------------------------------------------
clientOnDisconnect(st) ==
    stopAutoPushTimer([st EXCEPT !.isConnected = FALSE, !.state = "initializing",
                                 !.serverRevision = -1, !.outstandingOp = null,
                                 !.readOnly = TRUE])

\* --- socket.on("connect") ------------------------------------------------
clientOnConnect(cx) == [cx EXCEPT !.st.isConnected = TRUE]

\* --- socket.on("initial_state") ------------------------------------------
clientOnInitialState(cx, msg) ==
    LET st1 == [cx.st EXCEPT !.syncedDoc = msg.doc, !.serverRevision = msg.revision]
        st2 == setEditorValue(st1, msg.doc)
        st3 == [st2 EXCEPT !.readOnly = FALSE, !.state = "synchronized",
                           !.outstandingOp = null, !.bufferedOp = null]
    IN  [cx EXCEPT !.st = startAutoPushTimer(st3)]

\* --- socket.on("ack") ----------------------------------------------------
clientOnAck(cx, msg) ==
    LET st == cx.st
        applied == apply(st.outstandingOp, st.syncedDoc)
        st1 == [st EXCEPT !.syncedDoc = applied.doc, !.serverRevision = msg.revision,
                          !.outstandingOp = null]
    IN  IF st.state # "awaitingPush" THEN cx
        ELSE IF st.outstandingOp = null
        THEN applyQueuedUpdates([cx EXCEPT !.st.state = "synchronized"])
        ELSE IF ~applied.ok
        THEN pullChanges([cx EXCEPT !.st.outstandingOp = null])
        ELSE applyQueuedUpdates([cx EXCEPT !.st = reevaluateState(st1)])

\* the "update" handler without the queue: every Update is processed at once
clientOnUpdateAtOnce(cx, msg) ==
    IF IsThrown(fromJSON(msg.op)) THEN cx
    ELSE processServerUpdate(cx, msg)

\* --- socket.on("update") -------------------------------------------------
clientOnUpdate(cx, msg) ==
    IF IsThrown(fromJSON(msg.op)) THEN cx
    ELSE IF cx.st.state = "awaitingPush"
    THEN [cx EXCEPT !.st.updateQueue = Append(@, msg)]
    ELSE processServerUpdate(cx, msg)

\* --- socket.on("history") ------------------------------------------------
\* the text the catch block puts in the editor, as a one-character stand-in
ErrorBanner == <<"!">>

HistoryFail(st) == [ok |-> FALSE, st |-> st, content |-> <<>>]

\* the for loop of the try block, one statement after another; content is
\* currentEditorContent; a throw leaves the fields as the statements before
\* it set them
RECURSIVE historyLoop(_, _, _, _)

\* currentEditorContent = editorOpToApply.apply(...); this.serverRevision++
historyEditor(st, ops, k, content, editorOpToApply) ==
    IF apply(editorOpToApply, content).ok
    THEN historyLoop([st EXCEPT !.serverRevision = @ + 1], ops, k + 1,
                     apply(editorOpToApply, content).doc)
    ELSE HistoryFail(st)

\* [editorOpToApply, this.bufferedOp] = transform(serverOp, this.bufferedOp)
historyBuffered(st, ops, k, content, t) ==
    IF t.ok THEN historyEditor([st EXCEPT !.bufferedOp = t.b], ops, k, content, t.a)
    ELSE HistoryFail(st)

\* syncedDoc has been set; the operation for the editor
historyEditorOp(st, ops, k, content, serverOp) ==
    IF (st.state = "dirty" \/ st.editorDoc # st.syncedDoc) /\ st.bufferedOp # null
    THEN historyBuffered(st, ops, k, content, transform(serverOp, st.bufferedOp))
    ELSE historyEditor(st, ops, k, content, serverOp)

\* this.syncedDoc = serverOp.apply(this.syncedDoc)
historySynced(st, ops, k, content, serverOp) ==
    IF apply(serverOp, st.syncedDoc).ok
    THEN historyEditorOp([st EXCEPT !.syncedDoc = apply(serverOp, st.syncedDoc).doc],
                         ops, k, content, serverOp)
    ELSE HistoryFail(st)

\* [serverOp, this.outstandingOp] = transform(serverOp, this.outstandingOp)
historyOutstanding(st, ops, k, content, t) ==
    IF t.ok THEN historySynced([st EXCEPT !.outstandingOp = t.b], ops, k, content, t.a)
    ELSE HistoryFail(st)

\* serverOp = TextOperation.fromJSON(opJson) has been decoded
historyDecoded(st, ops, k, content, serverOp) ==
    IF IsThrown(serverOp) THEN HistoryFail(st)
    ELSE IF st.outstandingOp # null
    THEN IF st.outstandingOp.baseLength # serverOp.baseLength THEN HistoryFail(st)
         ELSE historyOutstanding(st, ops, k, content,
                                 transform(serverOp, st.outstandingOp))
    ELSE historySynced(st, ops, k, content, serverOp)

historyLoop(st, ops, k, content) ==
    IF k > Len(ops) THEN [ok |-> TRUE, st |-> st, content |-> content]
    ELSE historyDecoded(st, ops, k, content, fromJSON(ops[k]))

\* after the loop: setEditorValue, the revision, the final state check
historyApplied(st, msg) ==
    startAutoPushTimer(
        [st EXCEPT !.serverRevision = msg.currentRevision,
                   !.state = IF st.outstandingOp # null THEN "awaitingPush"
                             ELSE IF st.editorDoc # st.syncedDoc THEN "dirty"
                             ELSE "synchronized"])

\* catch: the reset, then socket.disconnect() runs the "disconnect" handler
\* before connect() is called
historyFailed(st) ==
    startAutoPushTimer(
        clientOnDisconnect(
            setEditorValue([st EXCEPT !.state = "initializing", !.readOnly = TRUE],
                           ErrorBanner)))

historyOutcome(cx, msg, loop) ==
    IF loop.ok
    THEN [cx EXCEPT !.st = historyApplied(setEditorValue(loop.st, loop.content), msg)]
    ELSE [cx EXCEPT !.st = historyFailed(loop.st), !.reconnect = TRUE]

clientOnHistory(cx, msg) ==
    historyOutcome(cx, msg,
                   historyLoop([cx.st EXCEPT !.updateQueue = <<>>], msg.ops, 1,
                               cx.st.editorDoc))

\* --- socket.on("error") --------------------------------------------------
clientOnError(cx, msg) ==
    IF cx.st.state = "awaitingPush"
    THEN [cx EXCEPT !.st.outstandingOp = null, !.st.state = "dirty"]
    ELSE cx

\* --- pushing -------------------------------------------------------------
pushChangesInternal(cx, opToSend) ==
    [cx EXCEPT !.out = Append(@, ClientPushMsg(cx.st.serverRevision, toJSON(opToSend)))]

\* autoPushTask without the check of the state: it also pushes while a push
\* or a pull is outstanding
autoPushTaskAnyState(cx) ==
    LET st == cx.st
    IN  IF \/ st.mode # "Automatic"
           \/ ~st.isConnected
           \/ st.bufferedOp = null
           \/ isNoop(st.bufferedOp)
        THEN cx
        ELSE pushChangesInternal(
                 [cx EXCEPT !.st.outstandingOp = st.bufferedOp,
                            !.st.bufferedOp = null,
                            !.st.state = "awaitingPush"],
                 st.bufferedOp)

autoPushTask(cx) ==
    LET st == cx.st
    IN  IF \/ st.mode # "Automatic"
           \/ ~st.isConnected
           \/ st.bufferedOp = null
           \/ isNoop(st.bufferedOp)
           \/ ~(st.state = "synchronized" \/ st.state = "dirty")
        THEN cx
        ELSE pushChangesInternal(
                 [cx EXCEPT !.st.outstandingOp = st.bufferedOp,
                            !.st.bufferedOp = null,
                            !.st.state = "awaitingPush"],
                 st.bufferedOp)

handleModeChange(cx) ==
    IF cx.st.mode = "Automatic"
    THEN autoPushTask([cx EXCEPT !.st = startAutoPushTimer(cx.st)])
    ELSE [cx EXCEPT !.st = stopAutoPushTimer(cx.st)]

\* leaving a no-op buffer behind: bufferedOp = null, dirty -> synchronized
clearNoopBuffer(st) ==
    [st EXCEPT !.bufferedOp = null,
               !.state = IF st.state = "dirty" THEN "synchronized" ELSE st.state]

pushChanges(cx) ==
    LET st == cx.st
    IN  IF ~canPush(st) \/ st.bufferedOp = null
        THEN IF st.bufferedOp # null /\ isNoop(st.bufferedOp)
             THEN [cx EXCEPT !.st = clearNoopBuffer(st)]
             ELSE cx
        ELSE IF isNoop(st.bufferedOp) THEN [cx EXCEPT !.st = clearNoopBuffer(st)]
        ELSE pushChangesInternal(
                 [cx EXCEPT !.st.outstandingOp = st.bufferedOp,
                            !.st.bufferedOp = null,
                            !.st.state = "awaitingPush"],
                 st.bufferedOp)

\* ------------------------------------------------------------------------
\* The steps of the system
\* ------------------------------------------------------------------------
\* local edits each run may make
MaxEdits == 2
\* messages a channel may hold when a user clicks Pull
MaxInFlight == 2

InitSystem ==
    /\ documentState = <<>>
    /\ currentRevision = 0
    /\ operationHistory = <<>>
    /\ connectedUsers = {}
    \* init() has called io(): each client's socket is opening
    /\ c2s = [c \in Clients |-> <<ConnectMsg>>]
    /\ s2c = [c \in Clients |-> <<>>]
    /\ client = [c \in Clients |-> NewClient]
    /\ edits = 0

Received(c, type) == c2s[c] # <<>> /\ Head(c2s[c]).type = type

\* --- the server handles the next message of session c ---------------------
ServerConnection(c) ==
    /\ Received(c, "connect")
    /\ c2s' = [c2s EXCEPT ![c] = Tail(@)]
    /\ serverOnConnection(c)
    /\ UNCHANGED <<clientVars, algVars>>

ServerPush(c) ==
    /\ Received(c, "push")
    /\ c2s' = [c2s EXCEPT ![c] = Tail(@)]
    /\ serverOnPush(c, Head(c2s[c]))
    /\ UNCHANGED <<clientVars, algVars>>

ServerPull(c) ==
    /\ Received(c, "pull")
    /\ c2s' = [c2s EXCEPT ![c] = Tail(@)]
    /\ serverOnPull(c, Head(c2s[c]))
    /\ UNCHANGED <<clientVars, algVars>>

ServerDisconnect(c) ==
    /\ Received(c, "disconnect")
    /\ c2s' = [c2s EXCEPT ![c] = Tail(@)]
    /\ serverOnDisconnect(c)
    /\ UNCHANGED <<clientVars, algVars>>

\* --- client c: a handler has run, with context cx as its outcome ---------
\* What it emitted goes to the server.  socket.disconnect().connect() closes
\* the socket (what the server had sent on it is lost) and opens a new one.
ClientStep(c, cx) ==
    /\ client' = [client EXCEPT ![c] = cx.st]
    /\ c2s' = [c2s EXCEPT ![c] =
                  IF cx.reconnect THEN @ \o cx.out \o <<DisconnectMsg, ConnectMsg>>
                  ELSE @ \o cx.out]
    /\ UNCHANGED <<serverVars, algVars>>

Delivered(c, type) == s2c[c] # <<>> /\ Head(s2c[c]).type = type

ClientReceive(c, cx) ==
    /\ ClientStep(c, cx)
    /\ s2c' = [s2c EXCEPT ![c] = IF cx.reconnect THEN <<>> ELSE Tail(@)]
    /\ UNCHANGED edits

ClientConnect(c) ==
    /\ Delivered(c, "connect")
    /\ ClientReceive(c, clientOnConnect(Cx(client[c])))

ClientInitialState(c) ==
    /\ Delivered(c, "initial_state")
    /\ ClientReceive(c, clientOnInitialState(Cx(client[c]), Head(s2c[c])))

ClientAck(c) ==
    /\ Delivered(c, "ack")
    /\ ClientReceive(c, clientOnAck(Cx(client[c]), Head(s2c[c])))

ClientUpdate(c) ==
    /\ Delivered(c, "update")
    /\ ClientReceive(c, clientOnUpdate(Cx(client[c]), Head(s2c[c])))

ClientHistory(c) ==
    /\ Delivered(c, "history")
    /\ ClientReceive(c, clientOnHistory(Cx(client[c]), Head(s2c[c])))

ClientError(c) ==
    /\ Delivered(c, "error")
    /\ ClientReceive(c, clientOnError(Cx(client[c]), Head(s2c[c])))

\* --- the user of client c ------------------------------------------------
\* Ace changes its content, then raises "change" with the delta
InsertDelta(index, text) == [action |-> "insert", index |-> index, text |-> text]
RemoveDelta(index, text) == [action |-> "remove", index |-> index, text |-> text]

aceInsert(doc, index, text) ==
    SubSeq(doc, 1, index) \o text \o SubSeq(doc, index + 1, Len(doc))
aceRemove(doc, index, n) ==
    SubSeq(doc, 1, index) \o SubSeq(doc, index + n + 1, Len(doc))

LocalEditWithin(limit, c, newDoc, delta) ==
    /\ ~client[c].readOnly
    /\ edits < limit
    /\ edits' = edits + 1
    /\ ClientStep(c, Cx(handleLocalDelta([client[c] EXCEPT !.editorDoc = newDoc], delta)))
    /\ UNCHANGED s2c

LocalEdit(c, newDoc, delta) == LocalEditWithin(MaxEdits, c, newDoc, delta)

\* the user types the client's own letter at index
LocalInsert(c, index) ==
    LocalEdit(c, aceInsert(client[c].editorDoc, index, <<c>>), InsertDelta(index, <<c>>))

\* the user removes the character at index
LocalRemove(c, index) ==
    LocalEdit(c, aceRemove(client[c].editorDoc, index, 1),
              RemoveDelta(index, SubSeq(client[c].editorDoc, index + 1, index + 1)))

\* the interval timer fires
AutoPushTick(c) ==
    /\ client[c].autoPushTimer
    /\ ClientStep(c, autoPushTask(Cx(client[c])))
    /\ UNCHANGED <<s2c, edits>>

\* the user picks the other mode
SetMode(c, mode) ==
    /\ mode # client[c].mode
    /\ ClientStep(c, handleModeChange(Cx([client[c] EXCEPT !.mode = mode])))
    /\ UNCHANGED <<s2c, edits>>

\* the user clicks Push / Pull
ClickPush(c) ==
    /\ ClientStep(c, pushChanges(Cx(client[c])))
    /\ UNCHANGED <<s2c, edits>>

ClickPull(c) ==
    /\ Len(c2s[c]) < MaxInFlight
    /\ ClientStep(c, pullChanges(Cx(client[c])))
    /\ UNCHANGED <<s2c, edits>>

\* ------------------------------------------------------------------------
\* The algebra harness: two operations built by builder calls (as the tests
\* of src/ot.test.ts build them), and the result of one call of apply /
\* invert / compose / transform on them and a document.
\* ------------------------------------------------------------------------
\* characters of the documents and of the inserted strings
DocChars == {"a", "b"}
InsCharsA == {"X"}
InsCharsB == {"Y"}

RECURSIVE StringsUpTo(_, _)
StringsUpTo(chars, n) ==
    IF n = 0 THEN {<<>>}
    ELSE LET shorter == StringsUpTo(chars, n - 1)
         IN  shorter \cup {Append(s, c) : s \in shorter, c \in chars}

Docs == StringsUpTo(DocChars, MaxBaseLen)
\* arguments of insert(s): the empty string included
InsertArgsA == StringsUpTo(InsCharsA, 1)
InsertArgsB == StringsUpTo(InsCharsB, 1)
\* arguments of retain(n) and delete(n): zero included
LengthArgs == 0 .. MaxBaseLen

NoResult == [kind |-> "none", a |-> NewTextOperation, b |-> NewTextOperation,
             out |-> ApplyFail]

InitAlgebra ==
    /\ opA = NewTextOperation
    /\ opB = NewTextOperation
    /\ testDoc = <<>>
    /\ result = NoResult

Building == result.kind = "none"
WithinBounds(op) == op.baseLength <= MaxBaseLen /\ op.targetLength <= MaxTargetLen

RetainA(n) ==
    /\ Building /\ WithinBounds(retain(opA, n))
    /\ opA' = retain(opA, n)
    /\ UNCHANGED <<opB, testDoc, result, sysVars>>

InsertA(s) ==
    /\ Building /\ WithinBounds(insert(opA, s))
    /\ opA' = insert(opA, s)
    /\ UNCHANGED <<opB, testDoc, result, sysVars>>

DeleteA(n) ==
    /\ Building /\ WithinBounds(delete(opA, n))
    /\ opA' = delete(opA, n)
    /\ UNCHANGED <<opB, testDoc, result, sysVars>>

RetainB(n) ==
    /\ Building /\ WithinBounds(retain(opB, n))
    /\ opB' = retain(opB, n)
    /\ UNCHANGED <<opA, testDoc, result, sysVars>>

InsertB(s) ==
    /\ Building /\ WithinBounds(insert(opB, s))
    /\ opB' = insert(opB, s)
    /\ UNCHANGED <<opA, testDoc, result, sysVars>>

DeleteB(n) ==
    /\ Building /\ WithinBounds(delete(opB, n))
    /\ opB' = delete(opB, n)
    /\ UNCHANGED <<opA, testDoc, result, sysVars>>

\* opA.apply(doc)
CallApply(doc) ==
    /\ Building
    /\ testDoc' = doc
    /\ result' = [NoResult EXCEPT !.kind = "apply", !.out = apply(opA, doc)]
    /\ UNCHANGED <<opA, opB, sysVars>>

\* opA.invert(doc)
CallInvert(doc) ==
    /\ Building
    /\ testDoc' = doc
    /\ result' = [NoResult EXCEPT !.kind = "invert", !.a = invert(opA, doc)]
    /\ UNCHANGED <<opA, opB, sysVars>>

\* opA.compose(opB), to be applied to doc
CallCompose(doc) ==
    /\ Building
    /\ testDoc' = doc
    /\ result' = [NoResult EXCEPT !.kind = "compose", !.a = compose(opA, opB)]
    /\ UNCHANGED <<opA, opB, sysVars>>

\* TextOperation.transform(opA, opB), to be applied to doc
CallTransform(doc) ==
    /\ Building
    /\ testDoc' = doc
    /\ LET t == transform(opA, opB)
       IN  result' = [NoResult EXCEPT !.kind = "transform", !.a = t.a, !.b = t.b]
    /\ UNCHANGED <<opA, opB, sysVars>>

\* the documents an operation is applied to: those of its base length
DocsFor(op) == {d \in Docs : Len(d) = op.baseLength}

NextAlgebra ==
    \/ \E n \in LengthArgs : RetainA(n)
    \/ \E s \in InsertArgsA : InsertA(s)
    \/ \E n \in LengthArgs : DeleteA(n)
    \/ \E n \in LengthArgs : RetainB(n)
    \/ \E s \in InsertArgsB : InsertB(s)
    \/ \E n \in LengthArgs : DeleteB(n)
    \/ \E d \in DocsFor(opA) : CallApply(d)
    \/ \E d \in DocsFor(opA) : CallInvert(d)
    \/ \E d \in DocsFor(opA) : opA.targetLength = opB.baseLength /\ CallCompose(d)
    \/ \E d \in DocsFor(opA) : opA.baseLength = opB.baseLength /\ CallTransform(d)

Init == InitSystem /\ InitAlgebra

SpecAlgebra == Init /\ [][NextAlgebra]_vars

\* the harness without the callers' care for lengths: the four methods are
\* called on operations and documents of any lengths within the bounds
NextAnyLength ==
    \/ \E n \in LengthArgs : RetainA(n)
    \/ \E s \in InsertArgsA : InsertA(s)
    \/ \E n \in LengthArgs : DeleteA(n)
    \/ \E n \in LengthArgs : RetainB(n)
    \/ \E s \in InsertArgsB : InsertB(s)
    \/ \E n \in LengthArgs : DeleteB(n)
    \/ \E d \in Docs : CallApply(d)
    \/ \E d \in Docs : CallInvert(d)
    \/ \E d \in DocsFor(opA) : CallCompose(d)
    \/ \E d \in DocsFor(opA) : CallTransform(d)

SpecAnyLength == Init /\ [][NextAnyLength]_vars

\* ------------------------------------------------------------------------
\* The system: the server and the clients of client.ts
\* ------------------------------------------------------------------------
Next ==
    \/ \E c \in Clients : ServerConnection(c)
    \/ \E c \in Clients : ServerPush(c)
    \/ \E c \in Clients : ServerPull(c)
    \/ \E c \in Clients : ServerDisconnect(c)
    \/ \E c \in Clients : ClientConnect(c)
    \/ \E c \in Clients : ClientInitialState(c)
    \/ \E c \in Clients : ClientAck(c)
    \/ \E c \in Clients : ClientUpdate(c)
    \/ \E c \in Clients : ClientHistory(c)
    \/ \E c \in Clients : ClientError(c)
    \/ \E c \in Clients : \E i \in 0 .. Len(client[c].editorDoc) : LocalInsert(c, i)
    \/ \E c \in Clients : \E i \in 0 .. Len(client[c].editorDoc) - 1 : LocalRemove(c, i)
    \/ \E c \in Clients : AutoPushTick(c)
    \/ \E c \in Clients : \E m \in {"Manual", "Automatic"} : SetMode(c, m)
    \/ \E c \in Clients : ClickPush(c)
    \/ \E c \in Clients : ClickPull(c)

Spec == Init /\ [][Next]_vars

\* ------------------------------------------------------------------------
\* The system with both clients left in Automatic mode, the mode they start
\* in: the users type at the end of the text and the timers push; nobody
\* clicks Push or Pull.  Fewer interleavings leave room for longer runs.
\* ------------------------------------------------------------------------
\* local edits each run may make
MaxAutoEdits == 5

\* the user types the client's own letter at the end of the text
TypeAtEnd(c) ==
    LocalEditWithin(MaxAutoEdits, c, client[c].editorDoc \o <<c>>,
                    InsertDelta(Len(client[c].editorDoc), <<c>>))

NextAuto ==
    \/ \E c \in Clients : ServerConnection(c)
    \/ \E c \in Clients : ServerPush(c)
    \/ \E c \in Clients : ServerPull(c)
    \/ \E c \in Clients : ServerDisconnect(c)
    \/ \E c \in Clients : ClientConnect(c)
    \/ \E c \in Clients : ClientInitialState(c)
    \/ \E c \in Clients : ClientAck(c)
    \/ \E c \in Clients : ClientUpdate(c)
    \/ \E c \in Clients : ClientHistory(c)
    \/ \E c \in Clients : ClientError(c)
    \/ \E c \in Clients : TypeAtEnd(c)
    \/ \E c \in Clients : AutoPushTick(c)

SpecAuto == Init /\ [][NextAuto]_vars

\* SpecAuto over a reliable channel with running timers.  Socket.IO over a
\* websocket delivers what was sent and Node's event loop runs the handler
\* of every event that has arrived: a message at the head of a channel is
\* eventually taken.  An interval timer that has a push to send eventually
\* fires.  Nothing is assumed of the users.
\* the server takes the message at the head of c's channel: one of
\* ServerConnection, ServerPush, ServerPull, ServerDisconnect
Serve(c) == c2s[c] # <<>> /\ c2s' = [c2s EXCEPT ![c] = Tail(@)]

\* client c takes the message at the head of its channel, and with
\* socket.disconnect() drops the rest: one of ClientConnect,
\* ClientInitialState, ClientAck, ClientUpdate, ClientHistory, ClientError
Deliver(c) ==
    /\ s2c[c] # <<>>
    /\ \/ s2c' = [s2c EXCEPT ![c] = Tail(@)]
       \/ s2c' = [s2c EXCEPT ![c] = <<>>]

FairAuto ==
    \A c \in Clients :
        WF_c2s(Serve(c)) /\ WF_s2c(Deliver(c)) /\ WF_vars(AutoPushTick(c))

SpecAutoFair == SpecAuto /\ FairAuto

\* ------------------------------------------------------------------------
\* The system in Automatic mode on a transport that may close: Socket.IO
\* raises "disconnect" at the client, what the server had sent on the socket
\* is lost, and the client's manager opens a new socket by itself.
\* ------------------------------------------------------------------------
\* local edits each run may make
MaxDropEdits == 3

\* the transport of client c closes
ConnectionLost(c) ==
    /\ client[c].isConnected
    /\ client' = [client EXCEPT ![c] = clientOnDisconnect(@)]
    /\ c2s' = [c2s EXCEPT ![c] = @ \o <<DisconnectMsg, ConnectMsg>>]
    /\ s2c' = [s2c EXCEPT ![c] = <<>>]
    /\ UNCHANGED <<serverVars, edits, algVars>>

TypeAtEndDrop(c) ==
    LocalEditWithin(MaxDropEdits, c, client[c].editorDoc \o <<c>>,
                    InsertDelta(Len(client[c].editorDoc), <<c>>))

NextDrop ==
    \/ \E c \in Clients : ServerConnection(c)
    \/ \E c \in Clients : ServerPush(c)
    \/ \E c \in Clients : ServerPull(c)
    \/ \E c \in Clients : ServerDisconnect(c)
    \/ \E c \in Clients : ClientConnect(c)
    \/ \E c \in Clients : ClientInitialState(c)
    \/ \E c \in Clients : ClientAck(c)
    \/ \E c \in Clients : ClientUpdate(c)
    \/ \E c \in Clients : ClientHistory(c)
    \/ \E c \in Clients : ClientError(c)
    \/ \E c \in Clients : TypeAtEndDrop(c)
    \/ \E c \in Clients : AutoPushTick(c)
    \/ \E c \in Clients : ConnectionLost(c)

SpecDrop == Init /\ [][NextDrop]_vars

\* ------------------------------------------------------------------------
\* Properties of the algebra (checked under SpecAlgebra)
\* ------------------------------------------------------------------------
RECURSIVE SumRetainDelete(_)
SumRetainDelete(ops) ==
    IF ops = <<>> THEN 0
    ELSE (IF isRetain(Head(ops)) THEN Head(ops).num
          ELSE IF isDelete(Head(ops)) THEN -Head(ops).num ELSE 0)
         + SumRetainDelete(Tail(ops))

RECURSIVE SumRetainInsert(_)
SumRetainInsert(ops) ==
    IF ops = <<>> THEN 0
    ELSE (IF isRetain(Head(ops)) THEN Head(ops).num
          ELSE IF isInsert(Head(ops)) THEN Len(Head(ops).str) ELSE 0)
         + SumRetainInsert(Tail(ops))

HasKind(op, P(_)) == \E i \in 1 .. Len(op.ops) : P(op.ops[i])

\* C2: transform convergence (TP1).  For builder-built a, b of equal
\* baseLength and a document of that length, transform(a, b) succeeds and
\* b'.apply(a.apply(doc)) and a'.apply(b.apply(doc)) are both defined and equal.
C2_TransformConvergence ==
    result.kind = "transform" =>
        LET docA == apply(opA, testDoc)
            docB == apply(opB, testDoc)
            docAB == apply(result.b, docA.doc)
            docBA == apply(result.a, docB.doc)
        IN  /\ ~IsThrown(result.a) /\ ~IsThrown(result.b)
            /\ docA.ok /\ docB.ok
            /\ docAB.ok /\ docBA.ok
            /\ docAB.doc = docBA.doc

\* a transform of two operations that both insert and delete, on a non-empty document
C2_Witness ==
    /\ result.kind = "transform"
    /\ HasKind(opA, isInsert) /\ HasKind(opA, isDelete)
    /\ HasKind(opB, isInsert) /\ HasKind(opB, isDelete)
    /\ ~IsThrown(result.a)

\* C3: compose equivalence.  For builder-built a, b with a.targetLength =
\* b.baseLength and a document of a's base length, a.compose(b) succeeds, has
\* a's baseLength and b's targetLength, and applying it equals applying a then b.
C3_ComposeEquivalence ==
    result.kind = "compose" =>
        /\ ~IsThrown(result.a)
        /\ result.a.baseLength = opA.baseLength
        /\ result.a.targetLength = opB.targetLength
        /\ apply(result.a, testDoc).ok
        /\ apply(result.a, testDoc) = apply(opB, apply(opA, testDoc).doc)

\* C4: invert round trip.  For a builder-built op and a document of its base
\* length, op.invert(doc) swaps baseLength and targetLength and undoes op.
C4_InvertRoundTrip ==
    result.kind = "invert" =>
        /\ ~IsThrown(result.a)
        /\ result.a.baseLength = opA.targetLength
        /\ result.a.targetLength = opA.baseLength
        /\ apply(opA, testDoc).ok
        /\ apply(result.a, apply(opA, testDoc).doc) = ApplyOk(testDoc)

\* the inversion of an operation that retains, inserts and deletes
C4_Witness ==
    /\ result.kind = "invert"
    /\ HasKind(opA, isRetain) /\ HasKind(opA, isInsert) /\ HasKind(opA, isDelete)
    /\ HasKind(result.a, isInsert) /\ HasKind(result.a, isDelete)

\* C5: apply preserves length.  Every builder-built operation has baseLength
\* = sum of its retain and delete lengths and targetLength = sum of its retain
\* and insert lengths, and applied to a document of its base length it
\* succeeds with a result of its target length.
C5_ApplyPreservesLength ==
    /\ \A op \in {opA, opB} :
          /\ op.baseLength = SumRetainDelete(op.ops)
          /\ op.targetLength = SumRetainInsert(op.ops)
    /\ result.kind = "apply" =>
          /\ result.out.ok
          /\ Len(result.out.doc) = opA.targetLength

\* an apply of an operation that retains, inserts and deletes
C5_Witness ==
    /\ result.kind = "apply"
    /\ HasKind(opA, isRetain) /\ HasKind(opA, isInsert) /\ HasKind(opA, isDelete)
    /\ result.out.ok
    /\ Len(result.out.doc) # Len(testDoc)

SameKind(x, y) ==
    \/ isRetain(x) /\ isRetain(y)
    \/ isInsert(x) /\ isInsert(y)
    \/ isDelete(x) /\ isDelete(y)

\* C6: canonical form (merging).  After any sequence of builder calls the
\* component list has no zero-length component and no two adjacent
\* components of the same kind.
C6_CanonicalMerging ==
    \A op \in {opA, opB} :
        /\ \A i \in 1 .. Len(op.ops) :
              isRetain(op.ops[i]) \/ isDelete(op.ops[i])
                 \/ (isInsert(op.ops[i]) /\ op.ops[i].str # <<>>)
        /\ \A i \in 1 .. Len(op.ops) - 1 : ~SameKind(op.ops[i], op.ops[i + 1])

\* C7: canonical form (ordering).  In every builder-built operation no
\* Delete is immediately followed by an Insert.
C7_CanonicalOrdering ==
    \A op \in {opA, opB} :
        \A i \in 1 .. Len(op.ops) - 1 :
            ~(isDelete(op.ops[i]) /\ isInsert(op.ops[i + 1]))

\* op is retain(p).insert(s).retain(q) with p, q >= 0: it only inserts, once
SingleInsert(op) ==
    /\ ~IsThrown(op)
    /\ \A i \in 1 .. Len(op.ops) : ~isDelete(op.ops[i])
    /\ Cardinality({i \in 1 .. Len(op.ops) : isInsert(op.ops[i])}) = 1

InsertIndex(op) == CHOOSE i \in 1 .. Len(op.ops) : isInsert(op.ops[i])
\* the position op inserts at, and the text it inserts
InsertPosition(op) == SumRetainDelete(SubSeq(op.ops, 1, InsertIndex(op) - 1))
InsertedText(op) == op.ops[InsertIndex(op)].str

\* opA and opB insert at the same position of the same base
SamePositionInserts ==
    /\ SingleInsert(opA) /\ SingleInsert(opB)
    /\ opA.baseLength = opB.baseLength
    /\ InsertPosition(opA) = InsertPosition(opB)

\* C24: insertion tie-break.  For operations a and b that both insert at the
\* same position of the same base, with (a', b') = transform(a, b), both a
\* followed by b' and b followed by a' produce the document in which a's
\* inserted text comes immediately before b's inserted text.
C24_InsertionTieBreak ==
    (result.kind = "transform" /\ SamePositionInserts) =>
        LET p == InsertPosition(opA)
            expected == SubSeq(testDoc, 1, p) \o InsertedText(opA)
                        \o InsertedText(opB) \o SubSeq(testDoc, p + 1, Len(testDoc))
            docAB == apply(result.b, apply(opA, testDoc).doc)
            docBA == apply(result.a, apply(opB, testDoc).doc)
        IN  /\ ~IsThrown(result.a) /\ ~IsThrown(result.b)
            /\ docAB.ok /\ docAB.doc = expected
            /\ docBA.ok /\ docBA.doc = expected

\* a transform of two inserts at the same position inside a non-empty document
C24_Witness ==
    /\ result.kind = "transform"
    /\ SamePositionInserts
    /\ InsertPosition(opA) > 0
    /\ InsertPosition(opA) < Len(testDoc)
    /\ ~IsThrown(result.a)

\* C25: transform structural symmetry.  For builder-built a, b of equal
\* baseLength and (a', b') = transform(a, b), a.compose(b') and b.compose(a')
\* are both defined, have the same component sequence (equals), and yield the
\* same document when applied to a document of a's base length.
C25_TransformStructuralSymmetry ==
    result.kind = "transform" =>
        LET abPrime == compose(opA, result.b)
            baPrime == compose(opB, result.a)
        IN  /\ ~IsThrown(result.a) /\ ~IsThrown(result.b)
            /\ ~IsThrown(abPrime) /\ ~IsThrown(baPrime)
            /\ abPrime.ops = baPrime.ops
            /\ apply(abPrime, testDoc).ok
            /\ apply(abPrime, testDoc) = apply(baPrime, testDoc)

\* C26: JSON round-trip.  For every operation op produced by a sequence of
\* builder calls, fromJSON(toJSON(op)) has exactly the component sequence of
\* op (equals is true) and the same baseLength and targetLength.
C26_JsonRoundTrip ==
    \A op \in {opA, opB} :
        ~IsThrown(op) =>
            /\ ~IsThrown(fromJSON(toJSON(op)))
            /\ fromJSON(toJSON(op)).ops = op.ops
            /\ fromJSON(toJSON(op)).baseLength = op.baseLength
            /\ fromJSON(toJSON(op)).targetLength = op.targetLength

\* C35: transform length postconditions.  For builder-built a, b of equal
\* baseLength, transform(a, b) returns (a', b') with a'.baseLength =
\* b.targetLength, b'.baseLength = a.targetLength and a'.targetLength =
\* b'.targetLength.
C35_TransformLengths ==
    result.kind = "transform" =>
        /\ ~IsThrown(result.a) /\ ~IsThrown(result.b)
        /\ result.a.baseLength = opB.targetLength
        /\ result.b.baseLength = opA.targetLength
        /\ result.a.targetLength = result.b.targetLength

\* a transform of two operations that change the length, to different lengths
C35_Witness ==
    /\ result.kind = "transform"
    /\ ~IsThrown(result.a)
    /\ opA.targetLength # opA.baseLength
    /\ opB.targetLength # opB.baseLength
    /\ opA.targetLength # opB.targetLength
    /\ HasKind(opA, isDelete) /\ HasKind(opB, isInsert)

\* the call that gave result was made against its length precondition
LengthMismatch ==
    \/ result.kind \in {"apply", "invert"} /\ Len(testDoc) # opA.baseLength
    \/ result.kind = "compose" /\ opA.targetLength # opB.baseLength
    \/ result.kind = "transform" /\ opA.baseLength # opB.baseLength

\* the call that gave result threw: nothing was returned
CallThrew ==
    \/ result.kind = "apply" /\ ~result.out.ok
    \/ result.kind = "invert" /\ IsThrown(result.a)
    \/ result.kind = "compose" /\ IsThrown(result.a)
    \/ result.kind = "transform" /\ IsThrown(result.a) /\ IsThrown(result.b)

\* C36: length preconditions are enforced.  apply(doc) and invert(doc) throw
\* when len(doc) # baseLength, compose throws when this.targetLength #
\* other.baseLength, transform throws when the base lengths differ; nothing
\* is returned and the operands are as they were before the call.  Checked
\* under SpecAnyLength.
C36_LengthPreconditions ==
    [][(result.kind = "none" /\ result'.kind # "none" /\ LengthMismatch')
       => (CallThrew' /\ opA' = opA /\ opB' = opB)]_vars

\* retain(1) or delete(1) applied to the empty document has thrown
C36_Witness ==
    /\ result.kind = "apply"
    /\ opA.baseLength = 1
    /\ Len(opA.ops) = 1
    /\ testDoc = <<>>
    /\ ~result.out.ok

\* ------------------------------------------------------------------------
\* The server alone: its sessions send whatever a socket can carry
\* ------------------------------------------------------------------------
\* pushes the server may accept in a run
MaxRevision == 3
\* components of a pushed array
MaxWireLen == 2

\* what a session may put in an array: retains, deletes, its own letter, and
\* a value fromJSON refuses (a zero from X, an object from Y)
WireComponents(c) ==
    {Num(1), Num(-1), Str(<<c>>), IF c = "X" THEN Num(0) ELSE JsonObject}

RECURSIVE WireOpsUpTo(_, _)
WireOpsUpTo(c, n) ==
    IF n = 0 THEN {<<>>}
    ELSE LET shorter == WireOpsUpTo(c, n - 1)
         IN  shorter \cup {Append(w, x) : w \in shorter, x \in WireComponents(c)}

WireOps(c) == WireOpsUpTo(c, MaxWireLen)
WireRevisions == -1 .. currentRevision + 1

\* a session sends once what was sent before has been handled and taken
CanSend(c) ==
    /\ c \in connectedUsers
    /\ \A d \in Clients : c2s[d] = <<>> /\ s2c[d] = <<>>

RawPush(c, revision, op) ==
    /\ CanSend(c)
    /\ currentRevision < MaxRevision
    /\ c2s' = [c2s EXCEPT ![c] = Append(@, ClientPushMsg(revision, op))]
    /\ UNCHANGED <<serverVars, s2c, clientVars, algVars>>

RawPull(c, revision) ==
    /\ CanSend(c)
    /\ c2s' = [c2s EXCEPT ![c] = Append(@, ClientPullMsg(revision))]
    /\ UNCHANGED <<serverVars, s2c, clientVars, algVars>>

\* the session closes its socket and opens another
RawReconnect(c) ==
    /\ CanSend(c)
    /\ c2s' = [c2s EXCEPT ![c] = @ \o <<DisconnectMsg, ConnectMsg>>]
    /\ s2c' = [s2c EXCEPT ![c] = <<>>]
    /\ UNCHANGED <<serverVars, clientVars, algVars>>

\* the session takes the next message the server sent it
RawReceive(c) ==
    /\ s2c[c] # <<>>
    /\ s2c' = [s2c EXCEPT ![c] = Tail(@)]
    /\ UNCHANGED <<serverVars, c2s, clientVars, algVars>>

NextServer ==
    \/ \E c \in Clients : ServerConnection(c)
    \/ \E c \in Clients : ServerPush(c)
    \/ \E c \in Clients : ServerPull(c)
    \/ \E c \in Clients : ServerDisconnect(c)
    \/ \E c \in Clients : \E r \in WireRevisions : \E w \in WireOps(c) : RawPush(c, r, w)
    \/ \E c \in Clients : \E r \in WireRevisions : RawPull(c, r)
    \/ \E c \in Clients : RawReconnect(c)
    \/ \E c \in Clients : RawReceive(c)

SpecServer == Init /\ [][NextServer]_vars

\* ------------------------------------------------------------------------
\* Properties of the server (checked under SpecServer)
\* ------------------------------------------------------------------------
\* C8: in every reachable server state the number of history entries equals
\* the revision.
C8_HistoryLengthIsRevision == Len(operationHistory) = currentRevision

InFlightTo(type) ==
    \E c \in Clients : \E i \in 1 .. Len(s2c[c]) : s2c[c][i].type = type

\* every push the bound allows has been accepted and a pull is being answered
C8_Witness ==
    /\ currentRevision = MaxRevision
    /\ InFlightTo("history")

\* the content at revision n, replaying the history from the empty document
\* the server starts with; undefined (ApplyFail) once a step is
RECURSIVE ReplayTo(_)
ReplayTo(n) ==
    IF n = 0 THEN ApplyOk(<<>>)
    ELSE LET before == ReplayTo(n - 1)
         IN  IF before.ok THEN apply(operationHistory[n], before.doc) ELSE ApplyFail

\* C9: for every i < revision, history[i].baseLength is the length of the
\* document at revision i; applying history[0 .. revision-1] in order to the
\* revision-0 content is defined at every step and yields the content.
C9_HistoryReplays ==
    /\ \A i \in 0 .. currentRevision - 1 :
          /\ i < Len(operationHistory)
          /\ ReplayTo(i).ok
          /\ operationHistory[i + 1].baseLength = Len(ReplayTo(i).doc)
    /\ currentRevision <= Len(operationHistory)
    /\ ReplayTo(currentRevision) = ApplyOk(documentState)

\* a push made against an older revision has been transformed and accepted,
\* and the history holds a deletion
C9_Witness ==
    /\ currentRevision >= 2
    /\ documentState # <<>>
    /\ \E i \in 1 .. Len(operationHistory) :
          /\ operationHistory[i].baseLength > 0
          /\ HasKind(operationHistory[i], isDelete)

\* the array can be decoded: every component is a string or a non-zero number
Decodable(op) ==
    \A i \in 1 .. Len(op) :
        \/ op[i].type = "string"
        \/ op[i].type = "number" /\ op[i].num # 0

\* the base length the decoded array asks for: what it retains and deletes
RECURSIVE WireBaseLength(_)
WireBaseLength(op) ==
    IF op = <<>> THEN 0
    ELSE (IF Head(op).type # "number" THEN 0
          ELSE IF Head(op).num > 0 THEN Head(op).num ELSE -Head(op).num)
         + WireBaseLength(Tail(op))

\* the push is one the server must reject
MustReject(msg) ==
    \/ msg.revision < 0
    \/ msg.revision > currentRevision
    \/ ~Decodable(msg.op)
    \/ WireBaseLength(msg.op) # Len(ReplayTo(msg.revision).doc)

\* C10: a failed push is atomic.  Whenever the server handles a push whose
\* revision is outside [0, revision], whose array cannot be decoded, or whose
\* base length is not the length of the document at its revision, it sends
\* exactly one Error to the pusher, nothing to anyone else, and content,
\* revision and history are unchanged.
C10_FailedPushIsAtomic ==
    [][\A c \in Clients :
          (Received(c, "push") /\ c2s'[c] = Tail(c2s[c]) /\ MustReject(Head(c2s[c])))
          => /\ s2c' = [s2c EXCEPT ![c] = Append(@, ServerErrorMsg)]
             /\ UNCHANGED <<documentState, currentRevision, operationHistory>>]_vars

\* stale-base pushes have been rejected after others were accepted
C10_Witness ==
    /\ currentRevision >= 2
    /\ \E c \in Clients :
          /\ s2c[c] # <<>>
          /\ s2c[c][Len(s2c[c])].type = "error"
          /\ c2s[c] = <<>>

\* C11: Ack/Update routing.  Each accepted push produces exactly one Ack
\* carrying the new revision, sent only to the pushing session, and one
\* Update carrying the same revision and the transformed client op (the entry
\* the push appended to the history), sent to every other connected session;
\* the pusher receives no Update for its own push and nobody else anything.
C11_AckUpdateRouting ==
    [][\A c \in Clients :
          (/\ Received(c, "push")
           /\ c2s'[c] = Tail(c2s[c])
           /\ currentRevision' # currentRevision)
          => s2c' = [d \in Clients |->
                       IF d = c
                       THEN Append(s2c[d], ServerAckMsg(currentRevision'))
                       ELSE IF d \in connectedUsers
                       THEN Append(s2c[d],
                                   ServerUpdateMsg(currentRevision',
                                       operationHistory'[Len(operationHistory')].ops))
                       ELSE s2c[d]]]_vars

\* a push made against an older revision was accepted: its Ack is on the
\* pusher's channel and the Update of the same revision on the other's
C11_Witness ==
    \E c \in Clients : \E d \in Clients \ {c} :
        /\ currentRevision >= 2
        /\ s2c[c] = <<ServerAckMsg(currentRevision)>>
        /\ s2c[d] = <<ServerUpdateMsg(currentRevision,
                                      operationHistory[currentRevision].ops)>>

\* C13: pull in range.  For a Pull with 0 <= clientRevision <= revision the
\* server replies to the requester with exactly one History whose
\* startRevision is clientRevision + 1, whose ops are the history entries
\* clientRevision+1 .. revision in order, whose currentRevision is the
\* revision and whose currentDocState is the content; nobody else is sent
\* anything and content, revision and history are unchanged.
C13_PullInRange ==
    [][\A c \in Clients :
          (/\ Received(c, "pull")
           /\ c2s'[c] = Tail(c2s[c])
           /\ Head(c2s[c]).revision \in 0 .. currentRevision)
          => LET r == Head(c2s[c]).revision
             IN  /\ s2c' = [s2c EXCEPT ![c] =
                       Append(@, [BlankMsg EXCEPT
                           !.type = "history",
                           !.startRevision = r + 1,
                           !.ops = [i \in 1 .. currentRevision - r |->
                                       operationHistory[r + i].ops],
                           !.currentRevision = currentRevision,
                           !.doc = documentState])]
                 /\ UNCHANGED <<documentState, currentRevision, operationHistory>>]_vars

\* a pull from a revision in the middle of the history has been answered
\* with the entries after it
C13_Witness ==
    \E c \in Clients : \E i \in 1 .. Len(s2c[c]) :
        /\ s2c[c][i].type = "history"
        /\ s2c[c][i].startRevision >= 2
        /\ s2c[c][i].ops # <<>>
        /\ s2c[c][i].doc # <<>>

\* C14: pull out of range.  For a Pull whose revision is negative or greater
\* than the server revision, the server replies to the requester with a
\* History containing the entire history, with startRevision = 1,
\* currentRevision = revision and currentDocState = content, and leaves
\* content, revision and history unchanged.
C14_PullOutOfRange ==
    [][\A c \in Clients :
          (/\ Received(c, "pull")
           /\ c2s'[c] = Tail(c2s[c])
           /\ Head(c2s[c]).revision \notin 0 .. currentRevision)
          => /\ s2c' = [s2c EXCEPT ![c] =
                   Append(@, [BlankMsg EXCEPT
                       !.type = "history",
                       !.startRevision = 1,
                       !.ops = [i \in 1 .. Len(operationHistory) |->
                                   operationHistory[i].ops],
                       !.currentRevision = currentRevision,
                       !.doc = documentState])]
             /\ UNCHANGED <<documentState, currentRevision, operationHistory>>]_vars

\* the server, holding a history of several entries, is answering a Pull
\* from a revision it has not reached
C14_Witness ==
    /\ currentRevision >= 2
    /\ documentState # <<>>
    /\ \E c \in Clients :
          /\ Received(c, "pull")
          /\ Head(c2s[c]).revision > currentRevision

\* the target length the array asks for: what it retains and inserts
RECURSIVE WireTargetLength(_)
WireTargetLength(op) ==
    IF op = <<>> THEN 0
    ELSE (IF Head(op).type = "string" THEN Len(Head(op).str)
          ELSE IF Head(op).num > 0 THEN Head(op).num ELSE 0)
         + WireTargetLength(Tail(op))

\* canonical form: no empty component, no two adjacent components of the
\* same kind, no Delete immediately followed by an Insert
Canonical(op) ==
    /\ \A i \in 1 .. Len(op.ops) :
          isRetain(op.ops[i]) \/ isDelete(op.ops[i])
             \/ (isInsert(op.ops[i]) /\ op.ops[i].str # <<>>)
    /\ \A i \in 1 .. Len(op.ops) - 1 :
          /\ ~SameKind(op.ops[i], op.ops[i + 1])
          /\ ~(isDelete(op.ops[i]) /\ isInsert(op.ops[i + 1]))

\* the arrays of the pushes in flight
PushedArrays ==
    UNION {{c2s[c][i].op : i \in {j \in 1 .. Len(c2s[c]) : c2s[c][j].type = "push"}} :
           c \in Clients}

\* C27: wire decoding.  fromJSON maps each positive integer to Retain(n), each
\* negative integer to Delete(|n|) and each string to Insert, through the
\* builder, so that the result is in canonical form with the base and target
\* lengths the array asks for; an array with an element that is none of these
\* (a zero, an object, null) makes fromJSON throw and no operation is produced.
C27_WireDecoding ==
    \A w \in PushedArrays :
        IF Decodable(w)
        THEN /\ ~IsThrown(fromJSON(w))
             /\ fromJSON(w).baseLength = WireBaseLength(w)
             /\ fromJSON(w).targetLength = WireTargetLength(w)
             /\ Canonical(fromJSON(w))
        ELSE IsThrown(fromJSON(w))

\* ------------------------------------------------------------------------
\* Properties of the system (checked under Spec)
\* ------------------------------------------------------------------------
\* no message is in flight and no client holds work of its own
Quiescent ==
    /\ \A c \in Clients : c2s[c] = <<>> /\ s2c[c] = <<>>
    /\ \A c \in Clients :
          /\ client[c].isConnected
          /\ client[c].state # "initializing"
          /\ client[c].outstandingOp = null
          /\ client[c].bufferedOp = null
          /\ client[c].updateQueue = <<>>

\* C1: convergence at quiescence.  In every state where no message is in
\* flight and every client has no outstandingOp, no bufferedOp and an empty
\* updateQueue, each client's syncedDoc and virtualDoc equal the server's
\* content and its serverRevision equals the server's revision.
C1_ConvergenceAtQuiescence ==
    Quiescent =>
        \A c \in Clients :
            /\ client[c].syncedDoc = documentState
            /\ client[c].virtualDoc = documentState
            /\ client[c].serverRevision = currentRevision

\* the positions of the Updates on their way to session c
UpdatesTo(c) == {i \in 1 .. Len(s2c[c]) : s2c[c][i].type = "update"}

\* C12: for each client session, Updates arrive in the order their
\* operations were appended to the server history.  The Updates on their way
\* to a session have strictly increasing revisions, each is the history entry
\* of its revision, and none is newer than the server's revision (so an
\* Update sent later, which carries the next revision, comes after them all).
C12_UpdatesInHistoryOrder ==
    \A c \in Clients :
        /\ \A i \in UpdatesTo(c) :
              /\ s2c[c][i].revision \in 1 .. currentRevision
              /\ s2c[c][i].revision <= Len(operationHistory)
              /\ s2c[c][i].op = operationHistory[s2c[c][i].revision].ops
        /\ \A i \in UpdatesTo(c) : \A j \in UpdatesTo(c) :
              i < j => s2c[c][i].revision < s2c[c][j].revision

\* two Updates are on their way to the same session
C12_Witness ==
    \E c \in Clients : \E i \in UpdatesTo(c) : \E j \in UpdatesTo(c) :
        i < j /\ s2c[c][j].revision = currentRevision

\* ------------------------------------------------------------------------
\* Properties of the client handlers
\* ------------------------------------------------------------------------
\* client c takes the message at the head of its channel, of the given type
Handles(c, type) == Delivered(c, type) /\ s2c'[c] = Tail(s2c[c])

\* the fields of client st once the Ack msg has been applied and outstandingOp
\* cleared, before the "ack" handler drains updateQueue
AckApplied(st, msg) ==
    reevaluateState([st EXCEPT !.syncedDoc = apply(st.outstandingOp, st.syncedDoc).doc,
                               !.serverRevision = msg.revision,
                               !.outstandingOp = null])

\* the Ack at the head of c's channel answers c's outstanding push
AckOfPush(c) ==
    /\ Delivered(c, "ack")
    /\ client[c].state = "awaitingPush"
    /\ client[c].outstandingOp # null
    /\ apply(client[c].outstandingOp, client[c].syncedDoc).ok

\* processServerUpdate is about to run, in Synchronized or Dirty, on an Update
\* whose revision is not the next one: msg is the Update, st the client
OutOfOrder(st, msg) ==
    /\ st.state \in {"synchronized", "dirty"}
    /\ msg.revision # st.serverRevision + 1

\* what C15 says processServerUpdate does to client c, from the fields st
PulledFrom(c, st) ==
    /\ client'[c].syncedDoc = st.syncedDoc
    /\ client'[c].virtualDoc = st.virtualDoc
    /\ client'[c].bufferedOp = st.bufferedOp
    /\ client'[c].serverRevision = st.serverRevision
    /\ client'[c].state = "awaitingPull"
    /\ c2s'[c] = Append(c2s[c], ClientPullMsg(st.serverRevision))

\* the first Update the "ack" handler takes from updateQueue is out of order
DrainsOutOfOrder(c) ==
    /\ AckOfPush(c)
    /\ client[c].updateQueue # <<>>
    /\ OutOfOrder(AckApplied(client[c], Head(s2c[c])), Head(client[c].updateQueue))

\* C15: out-of-order update triggers pull.  When a client in Synchronized or
\* Dirty processes an Update whose revision is not serverRevision + 1, it
\* changes none of syncedDoc, virtualDoc, bufferedOp and serverRevision,
\* enters AwaitingPull and sends Pull{revision: serverRevision}.  The Update
\* is processed either when it is received or, if it was queued during a
\* push, when the "ack" handler drains the queue after applying the Ack.
\* Checked under SpecAuto, where both ways happen.
C15_OutOfOrderUpdatePulls ==
    [][\A c \in Clients :
          /\ (Handles(c, "update") /\ OutOfOrder(client[c], Head(s2c[c])))
             => PulledFrom(c, client[c])
          /\ (Handles(c, "ack") /\ DrainsOutOfOrder(c))
             => PulledFrom(c, AckApplied(client[c], Head(s2c[c])))]_vars

\* a client with edits of its own is handed an Update that skips a revision
C15_Witness ==
    \E c \in Clients :
        /\ Delivered(c, "update")
        /\ OutOfOrder(client[c], Head(s2c[c]))
        /\ client[c].bufferedOp # null
        /\ Head(s2c[c]).revision > client[c].serverRevision + 1

\* C16: Ack transition.  When a client in AwaitingPush with an outstandingOp
\* and an empty updateQueue receives Ack{revision}, syncedDoc becomes
\* outstandingOp.apply(syncedDoc), outstandingOp is cleared and serverRevision
\* becomes ack.revision; the next state is Synchronized if bufferedOp is
\* absent or a noop, and Dirty if bufferedOp is non-noop.  Checked under Spec.
C16_AckTransition ==
    [][\A c \in Clients :
          (/\ Handles(c, "ack")
           /\ client[c].state = "awaitingPush"
           /\ client[c].outstandingOp # null
           /\ client[c].updateQueue = <<>>)
          => /\ apply(client[c].outstandingOp, client[c].syncedDoc).ok
             /\ client'[c].syncedDoc =
                    apply(client[c].outstandingOp, client[c].syncedDoc).doc
             /\ client'[c].outstandingOp = null
             /\ client'[c].serverRevision = Head(s2c[c]).revision
             /\ client'[c].state =
                    IF client[c].bufferedOp = null \/ isNoop(client[c].bufferedOp)
                    THEN "synchronized" ELSE "dirty"]_vars

\* ------------------------------------------------------------------------
\* Properties of the clients in Automatic mode (checked under SpecAuto)
\* ------------------------------------------------------------------------
\* doc after the operations of the first j queued Updates, in queue order
RECURSIVE ApplyQueued(_, _, _)
ApplyQueued(queue, j, doc) ==
    IF j = 0 THEN ApplyOk(doc)
    ELSE LET before == ApplyQueued(queue, j - 1, doc)
             op == fromJSON(queue[j].op)
         IN  IF before.ok /\ ~IsThrown(op) THEN apply(op, before.doc) ELSE ApplyFail

C19_UpdateDuringOutstandingPush ==
    [][\A c \in Clients :
          (/\ Handles(c, "update")
           /\ client[c].state = "awaitingPush"
           /\ client[c].outstandingOp # null
           /\ client[c].bufferedOp # null
           /\ Head(s2c[c]).revision = client[c].serverRevision + 1)
          => LET s == fromJSON(Head(s2c[c]).op)
                 viaOutstanding == transform(s, client[c].outstandingOp)
                 viaBuffered == transform(viaOutstanding.a, client[c].bufferedOp)
             IN  /\ viaOutstanding.ok
                 /\ viaBuffered.ok
                 /\ client'[c].outstandingOp = viaOutstanding.b
                 /\ client'[c].bufferedOp = viaBuffered.b
                 /\ client'[c].virtualDoc = apply(viaBuffered.a, client[c].virtualDoc).doc
                 /\ client'[c].serverRevision = client[c].serverRevision + 1
                 /\ client'[c].state = "awaitingPush"]_vars

\* client c takes the History at the head of its channel (a failed History
\* closes the socket, which empties the channel)
HandlesHistory(c) ==
    /\ Delivered(c, "history")
    /\ s2c'[c] = Tail(s2c[c]) \/ s2c'[c] = <<>>

\* C20 (scenario S4, pull recovery): a client at serverRevision r that
\* receives an Update with revision greater than r+1 enters AwaitingPull and
\* sends Pull(r) (that half is C15); once it has processed the reply
\* History{startRevision r+1, ops, currentRevision}, its serverRevision equals
\* currentRevision and its syncedDoc (and, with no local pending ops, its
\* virtualDoc) equals the server content at currentRevision, which the reply
\* carries as currentDocState.  The reply to a pull that a gap has triggered
\* carries at least the two operations r+1 and r+2.
C20_PullRecovery ==
    [][\A c \in Clients :
          (/\ HandlesHistory(c)
           /\ client[c].state = "awaitingPull"
           /\ Head(s2c[c]).startRevision = client[c].serverRevision + 1
           /\ Head(s2c[c]).currentRevision > client[c].serverRevision + 1)
          => /\ client'[c].serverRevision = Head(s2c[c]).currentRevision
             /\ client'[c].syncedDoc = Head(s2c[c]).doc
             /\ (client[c].outstandingOp = null /\ client[c].bufferedOp = null)
                => client'[c].virtualDoc = Head(s2c[c]).doc]_vars


\* the History at the head of c's channel does not start at the revision
\* after c's own
HistoryStartMismatch(c) ==
    Head(s2c[c]).startRevision # client[c].serverRevision + 1

\* applying the operations of the History at the head of c's channel throws
HistoryThrows(c) ==
    ~historyLoop([client[c] EXCEPT !.updateQueue = <<>>], Head(s2c[c]).ops, 1,
                 client[c].editorDoc).ok

\* C21: History authoritative reset.  When a client receives a History whose
\* startRevision differs from serverRevision + 1, or a transform or apply
\* fails while its operations are applied, the client ends with syncedDoc =
\* virtualDoc = currentDocState, outstandingOp and bufferedOp cleared,
\* serverRevision = currentRevision and state Synchronized.
C21_HistoryAuthoritativeReset ==
    [][\A c \in Clients :
          (HandlesHistory(c) /\ (HistoryStartMismatch(c) \/ HistoryThrows(c)))
          => /\ client'[c].syncedDoc = Head(s2c[c]).doc
             /\ client'[c].virtualDoc = Head(s2c[c]).doc
             /\ client'[c].outstandingOp = null
             /\ client'[c].bufferedOp = null
             /\ client'[c].serverRevision = Head(s2c[c]).currentRevision
             /\ client'[c].state = "synchronized"]_vars


\* C22 (scenario S6, client side of a failed push): when a client in
\* AwaitingPush receives an Error from the server, it transitions to
\* AwaitingPull and sends a Pull at its serverRevision; the History reply then
\* brings it to the server's current content and revision (C20, C21).
C22_ErrorDuringPushPulls ==
    [][\A c \in Clients :
          (Handles(c, "error") /\ client[c].state = "awaitingPush")
          => /\ client'[c].state = "awaitingPull"
             /\ c2s'[c] = Append(c2s[c], ClientPullMsg(client[c].serverRevision))]_vars


\* the operation [ch] on the empty document, and [ch, 1] on a one-letter one
InsertOnly(ch) == insert(NewTextOperation, <<ch>>)
InsertFirst(ch) == retain(insert(NewTextOperation, <<ch>>), 1)

\* scenario S5 at the server: a (here d) and b (here c) have both pushed an
\* insert at revision 0 of the empty document, d's push has been accepted and
\* c's is the next message of c
TiePush(c, d) ==
    /\ c # d
    /\ Received(c, "push")
    /\ Head(c2s[c]).revision = 0
    /\ Head(c2s[c]).op = toJSON(InsertOnly(c))
    /\ currentRevision = 1
    /\ operationHistory = <<InsertOnly(d)>>
    /\ documentState = <<d>>

\* the server handles the push at the head of c's channel
HandlesPush(c) == Received(c, "push") /\ c2s'[c] = Tail(c2s[c])

\* scenario S5 at client d: its own insert is acknowledged as revision 1 and
\* the Update of c's transformed push, revision 2, is its next message
TieUpdate(d, c) ==
    /\ c # d
    /\ Delivered(d, "update")
    /\ Head(s2c[d]) = ServerUpdateMsg(2, toJSON(InsertFirst(c)))
    /\ client[d].state = "synchronized"
    /\ client[d].serverRevision = 1
    /\ client[d].bufferedOp = null
    /\ client[d].syncedDoc = <<d>>
    /\ client[d].editorDoc = <<d>>

Sends(c, type) ==
    /\ Len(c2s'[c]) = Len(c2s[c]) + 1
    /\ SubSeq(c2s'[c], 1, Len(c2s[c])) = c2s[c]
    /\ c2s'[c][Len(c2s'[c])].type = type

\* the conditions of the periodic push task
AutoPushReady(st) ==
    /\ st.isConnected
    /\ st.mode = "Automatic"
    /\ st.bufferedOp # null
    /\ ~isNoop(st.bufferedOp)
    /\ st.state \in {"synchronized", "dirty"}

\* C28: auto-push.  The periodic push task sends a Push only when the client
\* is connected, in Automatic mode, has a bufferedOp that is neither null nor a
\* noop, and is in Synchronized or Dirty; when it fires it sets outstandingOp
\* to the bufferedOp, clears bufferedOp, sets the state to AwaitingPush and
\* emits Push{revision: serverRevision, op: that op}, all in one step and
\* touching nothing else; in every other case the task changes nothing and
\* sends nothing.  A Push sent by a client in Automatic mode is the task's.
C28_AutoPush ==
    [][\A c \in Clients :
          /\ (Sends(c, "push") /\ client'[c].mode = "Automatic")
             => /\ AutoPushReady([client[c] EXCEPT !.mode = "Automatic"])
                /\ client'[c] = [client[c] EXCEPT
                                    !.outstandingOp = client[c].bufferedOp,
                                    !.bufferedOp = null,
                                    !.state = "awaitingPush",
                                    !.mode = "Automatic",
                                    !.autoPushTimer = client'[c].autoPushTimer]
                /\ c2s'[c][Len(c2s'[c])] =
                       ClientPushMsg(client[c].serverRevision,
                                     toJSON(client[c].bufferedOp))
          /\ (client[c].autoPushTimer /\ ~AutoPushReady(client[c]))
             => autoPushTask(Cx(client[c])) = Cx(client[c])
          /\ (client[c].autoPushTimer /\ AutoPushReady(client[c]))
             => autoPushTask(Cx(client[c])).out # <<>>]_vars

\* the task has fired for a client that had typed while its timer ran: the
\* Push is on its way and its timer is still running
C28_Witness ==
    \E c \in Clients :
        /\ client[c].mode = "Automatic"
        /\ client[c].autoPushTimer
        /\ client[c].state = "awaitingPush"
        /\ client[c].outstandingOp # null
        /\ client[c].bufferedOp # null
        /\ c2s[c] # <<>>
        /\ c2s[c][Len(c2s[c])] =
               ClientPushMsg(client[c].serverRevision, toJSON(client[c].outstandingOp))


\* client c has sent a Pull whose History it has not processed yet: the Pull
\* or the History is on its way
PullPending(c) ==
    \/ \E i \in 1 .. Len(c2s[c]) : c2s[c][i].type = "pull"
    \/ \E i \in 1 .. Len(s2c[c]) : s2c[c][i].type = "history"

\* the user of client c edits the text: Ace has changed the editor content
LocallyEdits(c) == edits' = edits + 1 /\ client'[c].editorDoc # client[c].editorDoc

\* C29: pushes are suspended during a pull.  From the moment a client sends
\* Pull until it has processed the History reply it sends no Push, neither
\* automatic nor manual, while a local edit made in that interval still goes
\* into bufferedOp and brings virtualDoc to the editor's content.
C29_NoPushDuringPull ==
    [][\A c \in Clients :
          PullPending(c)
          => /\ ~Sends(c, "push")
             /\ LocallyEdits(c)
                => /\ client'[c].bufferedOp # null
                   /\ client'[c].bufferedOp # client[c].bufferedOp
                   /\ client'[c].virtualDoc = client'[c].editorDoc]_vars

\* the server has answered a push of client d with Error and d has not read
\* it yet.  Under SpecAuto every rejected push has a revision in
\* 0 .. currentRevision and a decodable array, so what failed is the base
\* length check of the transform loop ("Server history inconsistency",
\* server.ts:144-156) or apply's length check (server.ts:161)
PushHasFailed(d) == \E i \in 1 .. Len(s2c[d]) : s2c[d][i].type = "error"

\* C30: after a push has failed with a HistoryInconsistency or a
\* LengthMismatch the server refuses further writes: every later push leaves
\* content, revision and history unchanged and is answered with Error only,
\* no Ack and no Update.  Checked under SpecAuto.
C30_RefusesWritesAfterFailure ==
    [][\A c \in Clients :
          ((\E d \in Clients : PushHasFailed(d)) /\ HandlesPush(c))
          => /\ UNCHANGED <<documentState, currentRevision, operationHistory>>
             /\ s2c' = [s2c EXCEPT ![c] = Append(@, ServerErrorMsg)]]_vars

\* client c runs its "initial_state" handler on the message at the head of
\* its channel (a closing transport empties the channel too)
TakesInitialState(c) ==
    /\ Handles(c, "initial_state")
    /\ client'[c] = clientOnInitialState(Cx(client[c]), Head(s2c[c])).st

\* C31: client state is per connection.  When a client takes InitialState{doc,
\* revision}, the first one or the one of a new connection after a
\* disconnect, it is in Synchronized with syncedDoc = virtualDoc = doc,
\* serverRevision = revision, no outstandingOp, no bufferedOp and an empty
\* updateQueue: nothing of the previous connection is left to apply or send.
\* Checked under SpecDrop.
C31_StatePerConnection ==
    [][\A c \in Clients :
          TakesInitialState(c)
          => /\ client'[c].state = "synchronized"
             /\ client'[c].syncedDoc = Head(s2c[c]).doc
             /\ client'[c].virtualDoc = Head(s2c[c]).doc
             /\ client'[c].serverRevision = Head(s2c[c]).revision
             /\ client'[c].outstandingOp = null
             /\ client'[c].bufferedOp = null
             /\ client'[c].updateQueue = <<>>]_vars

\* C32: syncedDoc is the content at serverRevision.  For every connected
\* client whose state is not Initializing, serverRevision is a revision of
\* the server and syncedDoc equals the revision-0 content with
\* history[0 .. serverRevision-1] applied.  Checked under SpecAuto.
C32_SyncedDocAtServerRevision ==
    \A c \in Clients :
        (client[c].isConnected /\ client[c].state # "initializing")
        => /\ client[c].serverRevision \in 0 .. currentRevision
           /\ ReplayTo(client[c].serverRevision).ok
           /\ client[c].syncedDoc = ReplayTo(client[c].serverRevision).doc

\* op applied to the outcome of an earlier apply; an absent op is the identity
ThenApply(op, before) ==
    IF ~before.ok THEN ApplyFail
    ELSE IF op = null THEN before
    ELSE apply(op, before.doc)

\* syncedDoc with outstandingOp and bufferedOp applied in order
Pending(st) == ThenApply(st.bufferedOp, ThenApply(st.outstandingOp, ApplyOk(st.syncedDoc)))

\* C33: virtualDoc is syncedDoc with outstandingOp and bufferedOp applied.  In
\* every state of a client that is not Initializing, outstandingOp (if
\* present) has baseLength = len(syncedDoc), bufferedOp (if present) has
\* baseLength equal to the length after outstandingOp, and virtualDoc, which
\* is the editor's content, equals bufferedOp.apply(outstandingOp.apply(
\* syncedDoc)).  Checked under SpecAuto.
C33_VirtualDocIsPending ==
    \A c \in Clients :
        client[c].state # "initializing"
        => /\ client[c].outstandingOp # null
              => client[c].outstandingOp.baseLength = Len(client[c].syncedDoc)
           /\ client[c].bufferedOp # null
              => client[c].bufferedOp.baseLength =
                     IF client[c].outstandingOp # null
                     THEN client[c].outstandingOp.targetLength
                     ELSE Len(client[c].syncedDoc)
           /\ Pending(client[c]).ok
           /\ client[c].virtualDoc = Pending(client[c]).doc
           /\ client[c].editorDoc = client[c].virtualDoc

\* C34: well-formed pushes.  Every Push{revision: r, op} of a client that the
\* server is about to handle has a revision of the server, decodes, and has
\* the base length of the content at revision r, so that the transform loop
\* meets equal base lengths at every step and the final apply's length check
\* passes: the push is accepted.  Checked under SpecAuto.
C34_WellFormedPushes ==
    \A c \in Clients :
        Received(c, "push")
        => /\ ~MustReject(Head(c2s[c]))
           /\ pushOutcome(Head(c2s[c])).ok

\* C37: a client is in AwaitingPush exactly when it has an outstandingOp.  In
\* every reachable state, state = awaitingPush iff outstandingOp is present:
\* no second push goes out while one is in flight and the client never waits
\* for an Ack with nothing sent.
C37_AwaitingPushIffOutstanding ==
    \A c \in Clients :
        (client[c].state = "awaitingPush") <=> (client[c].outstandingOp # null)

\* the server's step on a Push or Pull of c puts exactly one message on c's
\* channel and it is of one of the given types (a socket the client has
\* already closed carries nothing)
AnswersWith(c, types) ==
    /\ Len(s2c'[c]) = Len(s2c[c]) + 1
    /\ SubSeq(s2c'[c], 1, Len(s2c[c])) = s2c[c]
    /\ s2c'[c][Len(s2c'[c])].type \in types

\* the server's half: one Ack or Error per Push, one History per Pull
C38_OneAnswer ==
    [][\A c \in Clients :
          /\ (HandlesPush(c) /\ ~Closing(c)) => AnswersWith(c, {"ack", "error"})
          /\ (Received(c, "pull") /\ c2s'[c] = Tail(c2s[c]) /\ ~Closing(c))
             => AnswersWith(c, {"history"})]_vars

\* the client's half: a connected client does not wait forever
C38_LeavesWaiting ==
    \A c \in Clients :
        /\ (client[c].isConnected /\ client[c].state = "awaitingPush")
           ~> (client[c].state # "awaitingPush")
        /\ (client[c].isConnected /\ client[c].state = "awaitingPull")
           ~> (client[c].state # "awaitingPull")

\* C38: every request is answered once.  The server answers every Push with
\* exactly one message to the pusher, an Ack or an Error, and every Pull with
\* exactly one History; so, over a reliable channel, a connected client that
\* is in AwaitingPush or AwaitingPull eventually leaves that state.  Checked
\* under SpecAutoFair.
C38_AnsweredAndLeaves == C38_OneAnswer /\ C38_LeavesWaiting

\* how many times the letter ch stands in doc
RECURSIVE Count(_, _)
Count(ch, doc) ==
    IF doc = <<>> THEN 0
    ELSE (IF Head(doc) = ch THEN 1 ELSE 0) + Count(ch, Tail(doc))

\* C39: no local edit is left behind.  In Automatic mode every edit the
\* editor has accepted is eventually in an operation of the server's
\* history.  Client c types only its own letter and nothing is ever deleted:
\* whenever c's editor holds n of c's letters, the server's content, which is
\* its history applied, eventually holds n of them.  Checked under
\* SpecAutoFair.
C39_NoEditLeftBehind ==
    \A c \in Clients : \A n \in 1 .. MaxAutoEdits :
        (client[c].isConnected /\ ~client[c].readOnly
            /\ Count(c, client[c].editorDoc) >= n)
        ~> (Count(c, documentState) >= n)

\* the server accepts the push of c in this step
AcceptsPush(c) == HandlesPush(c) /\ pushOutcome(Head(c2s[c])).ok

\* C40: revisions are monotonic.  The server's revision never decreases and
\* grows by exactly one in the steps that accept a push and in no others; in
\* every reachable state the serverRevision of each connected client that is
\* not Initializing lies between 0 and the server's revision.  Checked under
\* Spec.
C40_RevisionsMonotonic ==
    /\ [][IF \E c \in Clients : AcceptsPush(c)
          THEN currentRevision' = currentRevision + 1
          ELSE currentRevision' = currentRevision]_vars
    /\ [](\A c \in Clients :
             (client[c].isConnected /\ client[c].state # "initializing")
             => client[c].serverRevision \in 0 .. currentRevision)

=============================================================================
